---- MODULE Spec2Model ----
(***************************************************************************)
(* A model of the DShield connector repository: the shared client library  *)
(* (dshield_lib.py), the standalone copy (scripts/standalone_operations.py)*)
(* the operations module the connector imports (operations.py) and the     *)
(* Connector Adapter (connector.py).                                       *)
(*                                                                         *)
(* Every operation is synchronous and stateless, so an invocation is one   *)
(* step: the action draws the caller's inputs and what the HTTP transport  *)
(* does for each request, runs the operation as the code runs it, and      *)
(* records the requests issued, the clients constructed and the outcome    *)
(* (a returned value or a raised exception).                               *)
(***************************************************************************)
EXTENDS Integers, Sequences, FiniteSets, TLC

VARIABLES call, http, clients, outcome, stdout, stderr, files

vars == <<call, http, clients, outcome, stdout, stderr, files>>

(***************************************************************************)
(* Text.  A Python str is a sequence of pieces (single characters where    *)
(* the code looks at characters, whole phrases elsewhere).  format() and + *)
(* are concatenation, `in` is the search for a contiguous run of pieces.   *)
(***************************************************************************)
Contains(hay, needle) ==
    \E i \in 0..(Len(hay) - Len(needle)) :
        SubSeq(hay, i + 1, i + Len(needle)) = needle

StartsWith(text, prefix) ==
    /\ Len(prefix) <= Len(text)
    /\ SubSeq(text, 1, Len(prefix)) = prefix

EndsWith(text, suffix) ==
    /\ Len(suffix) <= Len(text)
    /\ SubSeq(text, Len(text) - Len(suffix) + 1, Len(text)) = suffix

Whitespace == {" ", "\t", "\n"}

RECURSIVE LStrip(_, _)
LStrip(text, chars) ==
    IF text # <<>> /\ Head(text) \in chars THEN LStrip(Tail(text), chars) ELSE text

RECURSIVE RStrip(_, _)
RStrip(text, chars) ==
    IF text # <<>> /\ text[Len(text)] \in chars
    THEN RStrip(SubSeq(text, 1, Len(text) - 1), chars)
    ELSE text

Strip(text, chars) == RStrip(LStrip(text, chars), chars)

(***************************************************************************)
(* Python values.                                                          *)
(***************************************************************************)
PyNone == [ty |-> "NoneType"]
PyStr(s) == [ty |-> "str", s |-> s]
PyXml(doc) == [ty |-> "str", markup |-> doc]
PyInt(n) == [ty |-> "int", n |-> n]
PyBool(b) == [ty |-> "bool", b |-> b]
PyList(xs) == [ty |-> "list", items |-> xs]
PyDict(f) == [ty |-> "dict", d |-> f]

EmptyMap == [k \in {} |-> PyNone]

Put(f, k, v) == [j \in (DOMAIN f) \cup {k} |-> IF j = k THEN v ELSE f[j]]

IsDict(v) == v.ty = "dict"
IsList(v) == v.ty = "list"
IsText(v) == v.ty = "str" /\ "s" \in DOMAIN v
HasKey(v, k) == k \in DOMAIN v.d

\* Python truth value of v
Truthy(v) ==
    CASE v.ty = "NoneType" -> FALSE
      [] v.ty = "str" -> IF "s" \in DOMAIN v THEN v.s # <<>> ELSE TRUE
      [] v.ty = "int" -> v.n # 0
      [] v.ty = "bool" -> v.b
      [] v.ty = "list" -> v.items # <<>>
      [] v.ty = "dict" -> DOMAIN v.d # {}

\* result[k] = v on a dict (the assignment in place)
SetItem(v, k, x) == PyDict(Put(v.d, k, x))

(***************************************************************************)
(* Exceptions: the classes the handlers name, with their base classes.     *)
(***************************************************************************)
Bases(cls) ==
    CASE cls = "Timeout" -> {"RequestException"}
      [] cls = "ReadTimeout" -> {"Timeout"}
      [] cls = "ConnectTimeout" -> {"ConnectionError", "Timeout"}
      [] cls = "ConnectionError" -> {"RequestException"}
      [] cls = "SSLError" -> {"ConnectionError"}
      [] cls = "HTTPError" -> {"RequestException"}
      [] cls = "TooManyRedirects" -> {"RequestException"}
      [] cls = "RequestException" -> {"Exception"}
      [] cls = "JSONDecodeError" -> {"ValueError"}
      [] cls = "ParseError" -> {"Exception"}
      [] cls = "ValueError" -> {"Exception"}
      [] cls = "AttributeError" -> {"Exception"}
      [] cls = "TypeError" -> {"Exception"}
      [] cls = "KeyError" -> {"Exception"}
      [] cls = "OSError" -> {"Exception"}
      [] cls = "DShieldError" -> {"Exception"}
      [] cls = "ConnectorError" -> {"Exception"}
      [] OTHER -> {}

RECURSIVE Ancestors(_)
Ancestors(cls) == {cls} \cup UNION {Ancestors(b) : b \in Bases(cls)}

IsInstance(exc, cls) == cls \in Ancestors(exc.cls)

Exc(cls, msg) == [cls |-> cls, msg |-> msg]

Return(v) == [kind |-> "return", value |-> v]
Raise(cls, msg) == [kind |-> "raise", exc |-> Exc(cls, msg)]

Returned(o) == o.kind = "return"
Raised(o) == o.kind = "raise"

\* the index of the first except clause of `handlers` that catches exc, 0 if none does
FirstHandler(exc, handlers) ==
    LET hit == {i \in 1..Len(handlers) : IsInstance(exc, handlers[i])}
    IN IF hit = {} THEN 0 ELSE CHOOSE i \in hit : \A j \in hit : i <= j

(***************************************************************************)
(* Configuration: the mapping the caller passes.  server_url and api_key   *)
(* are texts whose pieces are "https:", "http:", "/", "api", a host name   *)
(* or a blank; timeout is a number of seconds.                             *)
(***************************************************************************)
CfgGet(config, key, default) == IF key \in DOMAIN config THEN config[key] ELSE default

Https == <<"https:", "/", "/">>
Http == <<"http:", "/", "/">>
ApiSuffix == <<"/", "api">>

\* dshield_lib.DShield.error_msg
error_msg_lib ==
    [code \in {400, 401, 403, 404, 429, 500, 503} |->
        CASE code = 400 -> <<"Bad/Invalid Request - Check your parameters">>
          [] code = 401 -> <<"Invalid credentials were provided">>
          [] code = 403 -> <<"Access Denied - Insufficient permissions">>
          [] code = 404 -> <<"Resource not found">>
          [] code = 429 -> <<"Rate limit exceeded - Too many requests">>
          [] code = 500 -> <<"Internal Server Error">>
          [] code = 503 -> <<"Service Unavailable">>]

\* operations.DShield.error_msg
error_msg_legacy ==
    [code \in {400, 401, 403, 500, 503} |->
        CASE code = 400 -> <<"Bad/Invalid Request">>
          [] code = 401 -> <<"Invalid credentials were provided">>
          [] code = 403 -> <<"Access Denied">>
          [] code = 500 -> <<"Internal Server Error">>
          [] code = 503 -> <<"Service Unavailable">>]

time_out == <<"The request timed out while trying to connect to the remote server">>
ssl_error == <<"SSL certificate validation failed">>
connection_error == <<"Failed to connect to the server">>

\* dict.get(code, default) on a status table
TableGet(table, code, default) == IF code \in DOMAIN table THEN table[code] ELSE default

\* the base_url of dshield_lib.DShield and of the standalone DShield
NormalizeUrl(raw) ==
    LET server_url == Strip(raw, Whitespace)
        schemed == IF StartsWith(server_url, Http) \/ StartsWith(server_url, Https)
                   THEN server_url
                   ELSE Https \o server_url
        trimmed == RStrip(schemed, {"/"})
    IN IF EndsWith(trimmed, ApiSuffix) THEN trimmed ELSE trimmed \o ApiSuffix

\* dshield_lib.DShield.__init__: the client, or the error it raises
DShield_init_lib(config) ==
    LET server_url == Strip(CfgGet(config, "server_url", <<>>), Whitespace)
        api_key == Strip(CfgGet(config, "api_key", <<>>), Whitespace)
        base == [h \in {"Content-Type", "User-Agent", "Accept"} |->
                    CASE h = "Content-Type" -> <<"application/json">>
                      [] h = "User-Agent" -> <<"FortiSOAR-dshield_dev-Connector/1.1.0">>
                      [] h = "Accept" -> <<"application/json, text/xml, */*">>]
        headers == IF api_key # <<>>
                   THEN Put(base, "Authorization", <<"API_KEY ">> \o api_key)
                   ELSE base
    IN IF server_url = <<>>
       THEN Raise("DShieldError", <<"Server URL is required">>)
       ELSE Return([base_url |-> NormalizeUrl(server_url),
                    headers |-> headers,
                    timeout |-> PyInt(CfgGet(config, "timeout", 30)),
                    error_msg |-> error_msg_lib])

\* standalone_operations.DShield.__init__
DShield_init_standalone(config) ==
    LET server_url == Strip(CfgGet(config, "server_url", <<>>), Whitespace)
        api_key == Strip(CfgGet(config, "api_key", <<>>), Whitespace)
        headers == [h \in {"content-type", "User-Agent", "Authorization"} |->
                    CASE h = "content-type" -> <<"application/json">>
                      [] h = "User-Agent" -> <<"dshield_dev-Standalone/1.1.0">>
                      [] h = "Authorization" -> <<"API_KEY ">> \o api_key]
    IN IF server_url = <<>>
       THEN Raise("DShieldError", <<"Server URL is required">>)
       ELSE IF api_key = <<>>
       THEN Raise("DShieldError", <<"API key is required for DShield authentication">>)
       ELSE Return([base_url |-> NormalizeUrl(server_url),
                    headers |-> headers,
                    timeout |-> PyInt(CfgGet(config, "timeout", 30)),
                    error_msg |-> error_msg_lib])

\* operations.DShield.__init__: config.get('server_url') is None when the key is absent
DShield_init_legacy(config) ==
    IF "server_url" \notin DOMAIN config
    THEN Raise("AttributeError", <<"'NoneType' object has no attribute 'strip'">>)
    ELSE LET joined == Strip(config["server_url"], {"/"}) \o ApiSuffix
             base_url == IF StartsWith(joined, Https) THEN joined ELSE Https \o joined
         IN Return([base_url |-> base_url,
                    headers |-> [h \in {"content-type"} |-> <<"application/json">>],
                    timeout |-> PyNone,
                    error_msg |-> error_msg_legacy])

DShield_init(mod, config) ==
    CASE mod = "lib" -> DShield_init_lib(config)
      [] mod = "standalone" -> DShield_init_standalone(config)
      [] mod = "legacy" -> DShield_init_legacy(config)

(***************************************************************************)
(* The HTTP exchange.  What requests.request does for one request is drawn *)
(* by the caller of the model: it raises, or it answers with a status and  *)
(* a body.  A body is blank, markup (it starts with '<'), a JSON document  *)
(* (with the value it decodes to) or other text.                           *)
(***************************************************************************)
NetRaise(cls, msg) == [io |-> "raise", exc |-> Exc(cls, msg)]
NetAnswer(status, body) == [io |-> "answer", status |-> status, body |-> body]

BlankBody == [form |-> "blank"]
XmlBody(doc) == [form |-> "xml", doc |-> doc]
JsonBody(v) == [form |-> "json", value |-> v]
TextBody == [form |-> "text"]

\* response.text.strip() of a body that is not blank
BodyText(body) ==
    CASE body.form = "xml" -> PyXml(body.doc)
      [] body.form = "json" -> PyStr(<<"<json text>">>)
      [] body.form = "text" -> PyStr(<<"<other text>">>)
      [] OTHER -> PyStr(<<>>)

\* response.json(): the decoded value, or JSONDecodeError
ResponseJson(body) ==
    IF body.form = "json"
    THEN Return(body.value)
    ELSE Raise("JSONDecodeError", <<"Expecting value">>)

\* the request make_rest_call of dshield_lib and of the standalone module hands to requests
Request(client, endpoint, headers) ==
    [method |-> "GET",
     url |-> client.base_url \o endpoint,
     headers |-> [h \in (DOMAIN client.headers) \cup (DOMAIN headers) |->
                     IF h \in DOMAIN headers THEN headers[h] ELSE client.headers[h]],
     timeout |-> client.timeout,
     verify |-> TRUE]

\* the request operations.DShield.make_rest_call hands to requests: the caller's
\* headers only, and no timeout
RequestLegacy(client, endpoint, headers) ==
    [method |-> "GET",
     url |-> client.base_url \o endpoint,
     headers |-> headers,
     timeout |-> PyNone,
     verify |-> TRUE]

\* the except clauses of make_rest_call (dshield_lib and standalone), in order
RestHandlers == <<"Timeout", "ConnectionError", "SSLError", "RequestException", "Exception">>

\* what the except clause number i of make_rest_call raises for the exception exc
RestHandle(i, exc, table) ==
    CASE i = 1 -> Raise("DShieldError", time_out)
      [] i = 2 -> Raise("DShieldError", connection_error)
      [] i = 3 -> Raise("DShieldError", ssl_error)
      [] i = 4 -> Raise("DShieldError", <<"Request failed: ">> \o exc.msg)
      [] i = 5 -> Raise("DShieldError", <<"Unexpected error: ">> \o exc.msg)
      [] OTHER -> [kind |-> "raise", exc |-> exc]

\* the value make_rest_call returns for a successful response with a body, per module
DecodeBody(mod, body) ==
    IF mod = "lib" /\ body.form = "xml"
    THEN Return(PyDict([raw_response |-> BodyText(body), content_type |-> PyStr(<<"xml">>)]))
    ELSE LET decoded == ResponseJson(body)
         IN IF Raised(decoded) /\ IsInstance(decoded.exc, "JSONDecodeError")
            THEN IF mod = "lib"
                 THEN Return(PyDict([raw_response |-> BodyText(body),
                                     content_type |-> PyStr(<<"unknown">>)]))
                 ELSE Return(PyDict([raw_response |-> BodyText(body)]))
            ELSE decoded

\* variant of the try block: an empty body of a success response is raised as an error
RestTry_raise_on_empty(mod, table, net) ==
    IF net.io = "raise"
    THEN [kind |-> "raise", exc |-> net.exc]
    ELSE IF net.status < 400
    THEN IF net.body.form = "blank"
         THEN Raise("DShieldError", <<"Empty response", " received from server">>)
         ELSE DecodeBody(mod, net.body)
    ELSE Raise("DShieldError",
               <<"API Error ", ToString(net.status), ": ">>
                   \o TableGet(table, net.status, <<"Unknown error occurred">>))

\* the try block of make_rest_call (dshield_lib and standalone)
RestTry(mod, table, net) ==
    IF net.io = "raise"
    THEN [kind |-> "raise", exc |-> net.exc]
    ELSE IF net.status < 400
    THEN IF net.body.form = "blank"
         THEN Return(PyDict([error |-> PyStr(<<"Empty response", " received from server">>),
                             raw_response |-> PyStr(<<>>)]))
         ELSE DecodeBody(mod, net.body)
    ELSE Raise("DShieldError",
               <<"API Error ", ToString(net.status), ": ">>
                   \o TableGet(table, net.status, <<"Unknown error occurred">>))

\* DShield.make_rest_call of dshield_lib ("lib") and of the standalone module
make_rest_call(mod, client, net) ==
    LET tried == RestTry(mod, client.error_msg, net)
    IN IF Returned(tried)
       THEN tried
       ELSE RestHandle(FirstHandler(tried.exc, RestHandlers), tried.exc, client.error_msg)

\* operations.DShield.make_rest_call
make_rest_call_legacy(client, net) ==
    LET tried == IF net.io = "raise"
                 THEN [kind |-> "raise", exc |-> net.exc]
                 ELSE IF net.status < 400
                 THEN ResponseJson(net.body)
                 ELSE Raise("HTTPError", <<ToString(net.status), " Error for url">>)
        i == IF Raised(tried) THEN FirstHandler(tried.exc, <<"ConnectionError", "Exception">>) ELSE 0
    IN CASE i = 1 -> Raise("ConnectorError", time_out)
         [] i = 2 -> Raise("ConnectorError", tried.exc.msg)
         [] OTHER -> tried

(***************************************************************************)
(* An operation's run: its outcome, the requests it issued in order, and   *)
(* the number of DShield(config) constructor calls it made.                *)
(***************************************************************************)
Run(out, log, made) == [out |-> out, http |-> log, clients |-> made]

\* variant of the handlers: the DShield error is wrapped like any other exception
OpHandle_wrap_all(out, prefix) ==
    IF Returned(out) THEN out
    ELSE IF IsInstance(out.exc, "Exception") THEN Raise("DShieldError", prefix \o out.exc.msg)
    ELSE out

\* except DShieldError: raise / except Exception as e: raise DShieldError(prefix + str(e))
OpHandle(out, prefix) ==
    IF Returned(out) THEN out
    ELSE IF IsInstance(out.exc, "DShieldError") THEN out
    ELSE IF IsInstance(out.exc, "Exception") THEN Raise("DShieldError", prefix \o out.exc.msg)
    ELSE out

\* the _metadata every operation of dshield_lib and the standalone module attaches
Metadata == [source |-> PyStr(<<"DShield">>), connector_version |-> PyStr(<<"1.1.0">>)]

Digits == {"0", "1", "2", "3", "4", "5", "6", "7", "8", "9"}

\* the text positions following one octet 25[0-5]|2[0-4][0-9]|[01]?[0-9][0-9]? read from i
OctetEnds(s, i) ==
    LET at(k) == IF k <= Len(s) THEN s[k] ELSE "<end>"
    IN  (IF at(i) = "2" /\ at(i + 1) = "5" /\ at(i + 2) \in {"0", "1", "2", "3", "4", "5"}
         THEN {i + 3} ELSE {})
        \cup (IF at(i) = "2" /\ at(i + 1) \in {"0", "1", "2", "3", "4"} /\ at(i + 2) \in Digits
              THEN {i + 3} ELSE {})
        \cup (IF at(i) \in {"0", "1"} /\ at(i + 1) \in Digits /\ at(i + 2) \in Digits
              THEN {i + 3} ELSE {})
        \cup (IF at(i) \in Digits /\ at(i + 1) \in Digits THEN {i + 2} ELSE {})
        \cup (IF at(i) \in Digits THEN {i + 1} ELSE {})

\* the positions following one group (?:octet\.) read from a position of P
GroupEnds(s, P) ==
    {e + 1 : e \in {j \in UNION {OctetEnds(s, i) : i \in P} : j <= Len(s) /\ s[j] = "."}}

\* a validation whose octets are any one to three digits (256 and 999 pass)
validate_ip_address_any_digits(ip) ==
    LET digits(s, P) == {e \in 2..(Len(s) + 1) :
                            \E i \in P : /\ e - i \in 1..3
                                         /\ \A k \in i..(e - 1) : s[k] \in Digits}
        dotted(s, P) == {e + 1 : e \in {j \in digits(s, P) : j <= Len(s) /\ s[j] = "."}}
    IN Len(ip) + 1 \in digits(ip, dotted(ip, dotted(ip, dotted(ip, {1}))))

\* _validate_ip_address: re.match of ^(?:octet\.){3}octet$ ($ also matches before a final newline)
validate_ip_address(ip) ==
    LET last == UNION {OctetEnds(ip, i) : i \in GroupEnds(ip, GroupEnds(ip, GroupEnds(ip, {1})))}
    IN \E e \in last : e = Len(ip) + 1 \/ (e = Len(ip) /\ ip[e] = "\n")

\* lookup_ip of dshield_lib ("lib") and of the standalone module
lookup_ip(mod, config, params, net) ==
    LET ip == Strip(CfgGet(params, "ip", <<>>), Whitespace)
        made == DShield_init(mod, config)
        endpoint == <<"/ip/">> \o ip \o <<"?json">>
        result == make_rest_call(mod, made.value, net)
        tagged == IF Returned(result) /\ IsDict(result.value)
                  THEN Return(SetItem(result.value, "_metadata",
                                      PyDict(Put(Metadata, "query_ip", PyStr(ip)))))
                  ELSE result
    IN IF ip = <<>>
       THEN Run(Raise("DShieldError", <<"IP address parameter is required">>), <<>>, 0)
       ELSE IF ~validate_ip_address(ip)
       THEN Run(Raise("DShieldError", <<"Invalid IP address format", ": ">> \o ip), <<>>, 0)
       ELSE IF Raised(made)
       THEN Run(OpHandle(made, <<"Failed to lookup IP: ">>), <<>>, 1)
       ELSE Run(OpHandle(tagged, <<"Failed to lookup IP: ">>),
                <<Request(made.value, endpoint, EmptyMap)>>, 1)

\* get_threat_feeds of dshield_lib and of the standalone module
get_threat_feeds(mod, config, params, net) ==
    LET made == DShield_init(mod, config)
        result == make_rest_call(mod, made.value, net)
        tagged == IF Raised(result) THEN result
                  ELSE IF IsList(result.value)
                  THEN Return(PyDict([threat_feeds |-> result.value,
                                      _metadata |-> PyDict(Put(Metadata, "total_feeds",
                                                     PyInt(Len(result.value.items))))]))
                  ELSE IF IsDict(result.value)
                  THEN Return(SetItem(result.value, "_metadata", PyDict(Metadata)))
                  ELSE result
    IN IF Raised(made)
       THEN Run(OpHandle(made, <<"Failed to retrieve threat feeds: ">>), <<>>, 1)
       ELSE Run(OpHandle(tagged, <<"Failed to retrieve threat feeds: ">>),
                <<Request(made.value, <<"/threatfeeds/?json">>, EmptyMap)>>, 1)

\* the body get_top_ports and get_top_attacking_ips share, with their endpoint and prefix
TopOperation(mod, config, net, endpoint, prefix) ==
    LET made == DShield_init(mod, config)
        result == make_rest_call(mod, made.value, net)
        tagged == IF Returned(result) /\ IsDict(result.value)
                  THEN Return(SetItem(result.value, "_metadata", PyDict(Metadata)))
                  ELSE result
    IN IF Raised(made)
       THEN Run(OpHandle(made, prefix), <<>>, 1)
       ELSE Run(OpHandle(tagged, prefix), <<Request(made.value, endpoint, EmptyMap)>>, 1)

\* get_top_ports of dshield_lib and of the standalone module
get_top_ports(mod, config, params, net) ==
    TopOperation(mod, config, net, <<"/topports/?json">>, <<"Failed to retrieve top ports: ">>)

\* get_top_attacking_ips of dshield_lib and of the standalone module
get_top_attacking_ips(mod, config, params, net) ==
    TopOperation(mod, config, net, <<"/topips/?json">>,
                 <<"Failed to retrieve top attacking IPs: ">>)

\* _check_health of dshield_lib and of the standalone module
check_health(mod, config, net) ==
    LET made == DShield_init(mod, config)
        response == make_rest_call(mod, made.value, net)
        handle(out) ==
            IF Returned(out) THEN Return(PyBool(TRUE))
            ELSE IF IsInstance(out.exc, "DShieldError")
            THEN Raise("DShieldError", <<"Health check failed: ">> \o out.exc.msg)
            ELSE Raise("DShieldError",
                       <<"Health check failed: Unable to connect to DShield API">>)
    IN IF Raised(made)
       THEN Run(handle(made), <<>>, 1)
       ELSE Run(handle(response),
                <<Request(made.value, <<"/threatfeeds/?json">>, EmptyMap)>>, 1)

(***************************************************************************)
(* get_daily_summary.                                                      *)
(***************************************************************************)
\* datetime.now() formatted: the two dates are whatever the clock gives
start_date == <<"<start_date>">>
end_date == <<"<end_date>">>
date_range == PyStr(start_date \o <<" to ">> \o end_date)

\* variant of the list: the two fallback endpoints come before the dated one
endpoints_to_try_fallbacks_first ==
    << <<"/daily/?json">>,
       <<"/dailysummary/?json">>,
       <<"/dailysummary/">> \o start_date \o <<"/">> \o end_date >>

\* endpoints_to_try of the host get_daily_summary
endpoints_to_try ==
    << <<"/dailysummary/">> \o start_date \o <<"/">> \o end_date,
       <<"/daily/?json">>,
       <<"/dailysummary/?json">> >>

\* the test of the scan: result and not (isinstance(result, dict) and 'error' in result)
Usable(result) == Truthy(result) /\ ~(IsDict(result) /\ HasKey(result, "error"))

\* variant of the scan: an endpoint whose call raised is requested again, up to three
\* requests in all
RECURSIVE ScanEndpoints_retry(_, _, _, _, _)
ScanEndpoints_retry(client, endpoints, nets, result, log) ==
    IF endpoints = <<>> \/ Len(log) = 3
    THEN [result |-> result, http |-> log]
    ELSE LET got == make_rest_call("lib", client, Head(nets))
             sent == Append(log, Request(client, Head(endpoints), EmptyMap))
         IN IF Raised(got)
            THEN ScanEndpoints_retry(client, endpoints, Tail(nets), result, sent)
            ELSE IF Usable(got.value)
            THEN [result |-> got.value, http |-> sent]
            ELSE ScanEndpoints_retry(client, Tail(endpoints), Tail(nets), got.value, sent)

\* the for loop of the host get_daily_summary over the endpoints left, from the
\* result and the request log so far; nets[k] is what the transport does for
\* the k-th endpoint left
RECURSIVE ScanEndpoints(_, _, _, _, _)
ScanEndpoints(client, endpoints, nets, result, log) ==
    IF endpoints = <<>>
    THEN [result |-> result, http |-> log]
    ELSE LET got == make_rest_call("lib", client, Head(nets))
             sent == Append(log, Request(client, Head(endpoints), EmptyMap))
         IN IF Raised(got)
            THEN IF IsInstance(got.exc, "Exception")
                 THEN ScanEndpoints(client, Tail(endpoints), Tail(nets), result, sent)
                 ELSE [result |-> result, http |-> sent]
            ELSE IF Usable(got.value)
            THEN [result |-> got.value, http |-> sent]
            ELSE ScanEndpoints(client, Tail(endpoints), Tail(nets), got.value, sent)

\* variant of the membership test: a text matches only when it equals the needle
PyIn_equal(needle, v) ==
    CASE v.ty = "str" -> Return(PyBool(IF "s" \in DOMAIN v THEN v.s = needle ELSE FALSE))
      [] v.ty = "list" -> Return(PyBool(\E i \in 1..Len(v.items) : v.items[i] = PyStr(needle)))
      [] v.ty = "dict" -> Return(PyBool(Len(needle) = 1 /\ needle[1] \in DOMAIN v.d))
      [] OTHER -> Raise("TypeError", <<"argument of type '", v.ty, "' is not iterable">>)

\* needle in v, for a text needle: the truth value, or the TypeError of a v that is no container
PyIn(needle, v) ==
    CASE v.ty = "str" -> Return(PyBool(IF "s" \in DOMAIN v THEN Contains(v.s, needle) ELSE FALSE))
      [] v.ty = "list" -> Return(PyBool(\E i \in 1..Len(v.items) : v.items[i] = PyStr(needle)))
      [] v.ty = "dict" -> Return(PyBool(Len(needle) = 1 /\ needle[1] \in DOMAIN v.d))
      [] OTHER -> Raise("TypeError", <<"argument of type '", v.ty, "' is not iterable">>)

\* the soft-failure envelope for an empty response
EmptyResponseEnvelope ==
    PyDict([error |-> PyStr(<<"Daily summary endpoint returned empty response - endpoint may be broken">>),
            raw_response |-> PyStr(<<>>),
            _metadata |-> PyDict(Put(Metadata, "note",
                            PyStr(<<"This endpoint appears to be broken or deprecated">>)))])

\* the envelope of the second `if not result` of the host get_daily_summary
NoDataEnvelope ==
    PyDict([error |-> PyStr(<<"Daily summary endpoint returned no data">>),
            raw_response |-> PyStr(<<>>),
            _metadata |-> PyDict(Put(Metadata, "note",
                            PyStr(<<"No data available for the requested date range">>)))])

(***************************************************************************)
(* XML.  A document is well formed or not; a well-formed one has a root    *)
(* whose children named 'daily' are listed in document order.  A child of  *)
(* a 'daily' element is absent, present without text, or present with a    *)
(* text of characters.                                                     *)
(***************************************************************************)
Absent == [child |-> "absent"]
NoText == [child |-> "empty"]
WithText(cs) == [child |-> "text", text |-> cs]

\* daily.find(tag).text if daily.find(tag) is not None else default
ChildText(child, default) ==
    CASE child.child = "absent" -> PyStr(default)
      [] child.child = "empty" -> PyNone
      [] child.child = "text" -> PyStr(child.text)

\* str.isdigit() on the characters the model uses
IsDigit(cs) == cs # <<>> /\ \A i \in 1..Len(cs) : cs[i] \in Digits

DigitValue(c) == CHOOSE n \in 0..9 : ToString(n) = c

\* int(text) of a text of decimal digits
RECURSIVE ParseInt(_)
ParseInt(cs) ==
    IF cs = <<>> THEN 0
    ELSE 10 * ParseInt(SubSeq(cs, 1, Len(cs) - 1)) + DigitValue(cs[Len(cs)])

\* int(v) if v.isdigit() else 0, for the value v of ChildText
CountField(v) ==
    IF v.ty = "NoneType"
    THEN Raise("AttributeError", <<"'NoneType' object has no attribute 'isdigit'">>)
    ELSE IF IsDigit(v.s) THEN Return(PyInt(ParseInt(v.s))) ELSE Return(PyInt(0))

\* one pass of the loop over root.findall('daily'): the entry appended for one element
DailyEntry(daily) ==
    LET date == ChildText(daily.date, <<"Unknown">>)
        records == CountField(ChildText(daily.records, <<"0">>))
        sources == CountField(ChildText(daily.sources, <<"0">>))
        targets == CountField(ChildText(daily.targets, <<"0">>))
    IN IF Raised(records) THEN records
       ELSE IF Raised(sources) THEN sources
       ELSE IF Raised(targets) THEN targets
       ELSE Return(PyDict([date |-> date, records |-> records.value,
                           sources |-> sources.value, targets |-> targets.value]))

\* the loop over root.findall('daily'): daily_summaries, or the exception that ends it
RECURSIVE DailyEntries(_)
DailyEntries(elements) ==
    IF elements = <<>> THEN Return(<<>>)
    ELSE LET rest == DailyEntries(SubSeq(elements, 1, Len(elements) - 1))
             entry == DailyEntry(elements[Len(elements)])
         IN IF Raised(rest) THEN rest
            ELSE IF Raised(entry) THEN entry
            ELSE Return(Append(rest.value, entry.value))

\* sum(d[field] for d in daily_summaries)
RECURSIVE SumField(_, _)
SumField(entries, field) ==
    IF entries = <<>> THEN 0
    ELSE Head(entries).d[field].n + SumField(Tail(entries), field)

\* ET.fromstring(xml_content): the 'daily' children of the root, or the exception
FromString(xml_content) ==
    IF xml_content.ty # "str"
    THEN Raise("TypeError", <<"a bytes-like object is required">>)
    ELSE IF "markup" \in DOMAIN xml_content /\ xml_content.markup.wellformed
    THEN Return(xml_content.markup.daily)
    ELSE Raise("ParseError", <<"syntax error">>)

\* the XML branch of the host get_daily_summary
ParseXmlSummary(xml_content) ==
    LET root == FromString(xml_content)
        daily_summaries == DailyEntries(root.value)
        entries == daily_summaries.value
    IN IF Raised(root)
       THEN IF IsInstance(root.exc, "ParseError")
            THEN Return(PyDict([daily_summary |-> xml_content,
                                summary_type |-> PyStr(<<"Raw XML (Parse Failed)">>),
                                date_range |-> date_range,
                                parse_error |-> PyStr(root.exc.msg),
                                _metadata |-> PyDict(Put(Put(Metadata, "endpoint", PyStr(<<"dailysummary">>)),
                                                "note", PyStr(<<"XML parsing failed, returning raw content">>)))]))
            ELSE root
       ELSE IF Raised(daily_summaries) THEN daily_summaries
       ELSE Return(PyDict([daily_summaries |-> PyList(entries),
                           summary_totals |-> PyDict([total_records |-> PyInt(SumField(entries, "records")),
                                                      total_sources |-> PyInt(SumField(entries, "sources")),
                                                      total_targets |-> PyInt(SumField(entries, "targets")),
                                                      date_range |-> date_range]),
                           summary_type |-> PyStr(<<"Parsed XML">>),
                           _metadata |-> PyDict(Put(Put(Put(Metadata, "endpoint", PyStr(<<"dailysummary">>)),
                                           "note", PyStr(<<"Parsed XML format daily summary data">>)),
                                           "raw_xml_available", PyBool(TRUE)))]))

DailyMetadata == Put(Metadata, "endpoint", PyStr(<<"dailysummary">>))

\* the host get_daily_summary after the scan: what it does with result
SummaryOfResult(result) ==
    LET empty == PyIn(<<"Empty response">>, result.d["error"])
    IN IF ~Truthy(result)
       THEN Raise("DShieldError", <<"All daily summary endpoints failed or returned no data">>)
       ELSE IF IsDict(result) /\ HasKey(result, "error") /\ Raised(empty)
       THEN empty
       ELSE IF IsDict(result) /\ HasKey(result, "error") /\ empty.value.b
       THEN Return(EmptyResponseEnvelope)
       ELSE IF ~Truthy(result)
       THEN Return(NoDataEnvelope)
       ELSE IF IsDict(result) /\ HasKey(result, "raw_response")
       THEN ParseXmlSummary(result.d["raw_response"])
       ELSE IF IsDict(result)
       THEN Return(SetItem(result, "_metadata", PyDict(DailyMetadata)))
       ELSE IF IsList(result)
       THEN Return(PyDict([daily_summaries |-> result,
                           _metadata |-> PyDict(Put(DailyMetadata, "note",
                                           PyStr(<<"Data returned as list format">>)))]))
       ELSE Return(PyDict([data |-> result,
                           _metadata |-> PyDict(Put(DailyMetadata, "note",
                                           PyStr(<<"Data returned in unexpected format">>)))]))

\* get_daily_summary of dshield_lib; nets[i] is what the transport does for endpoint i
get_daily_summary_lib(config, params, nets) ==
    LET made == DShield_init_lib(config)
        scan == ScanEndpoints(made.value, endpoints_to_try, nets, PyNone, <<>>)
    IN IF Raised(made)
       THEN Run(OpHandle(made, <<"Failed to retrieve daily summary: ">>), <<>>, 1)
       ELSE Run(OpHandle(SummaryOfResult(scan.result), <<"Failed to retrieve daily summary: ">>),
                scan.http, 1)

\* get_daily_summary of the standalone module
get_daily_summary_standalone(config, params, net) ==
    LET made == DShield_init_standalone(config)
        got == make_rest_call("standalone", made.value, net)
        result == got.value
        empty == PyIn(<<"Empty response">>, result.d["error"])
        out == IF Raised(got) THEN got
               ELSE IF IsDict(result) /\ HasKey(result, "error") /\ Raised(empty)
               THEN empty
               ELSE IF IsDict(result) /\ HasKey(result, "error") /\ empty.value.b
               THEN Return(EmptyResponseEnvelope)
               ELSE IF IsDict(result) /\ HasKey(result, "raw_response")
               THEN Return(PyDict([daily_summary |-> result.d["raw_response"],
                                   summary_type |-> PyStr(<<"XML">>),
                                   date_range |-> date_range,
                                   _metadata |-> PyDict(Put(DailyMetadata, "note",
                                                   PyStr(<<"Returns XML format daily summary data">>)))]))
               ELSE IF IsDict(result)
               THEN Return(SetItem(result, "_metadata", PyDict(DailyMetadata)))
               ELSE got
    IN IF Raised(made)
       THEN Run(OpHandle(made, <<"Failed to retrieve daily summary: ">>), <<>>, 1)
       ELSE Run(OpHandle(out, <<"Failed to retrieve daily summary: ">>),
                <<Request(made.value, Head(endpoints_to_try), EmptyMap)>>, 1)

(***************************************************************************)
(* operations.py, the module connector.py imports, and the Connector       *)
(* Adapter.                                                                *)
(***************************************************************************)
\* '{}'.format(params.get('ip'))
FormatParam(params, key) == IF key \in DOMAIN params THEN params[key] ELSE <<"None">>

\* operations.lookup_ip
lookup_ip_legacy(config, params, net) ==
    LET made == DShield_init_legacy(config)
        endpoint == <<"/ip/">> \o FormatParam(params, "ip") \o <<"?json">>
    IN IF Raised(made)
       THEN Run(made, <<>>, 1)
       ELSE Run(make_rest_call_legacy(made.value, net),
                <<RequestLegacy(made.value, endpoint, EmptyMap)>>, 1)

\* operations.get_threat_feeds
get_threat_feeds_legacy(config, params, net) ==
    LET made == DShield_init_legacy(config)
    IN IF Raised(made)
       THEN Run(made, <<>>, 1)
       ELSE Run(make_rest_call_legacy(made.value, net),
                <<RequestLegacy(made.value, <<"/threatfeeds/?json">>, EmptyMap)>>, 1)

ProbeIp == <<"8", ".", "8", ".", "8", ".", "8">>

\* operations._check_health: no return statement, so None when the probe does not raise
check_health_legacy(config, net) ==
    LET probe == lookup_ip_legacy(config, [ip |-> ProbeIp], net)
    IN IF Raised(probe.out) /\ IsInstance(probe.out.exc, "Exception")
       THEN Run(Raise("ConnectorError", <<"Invalid URL">>), probe.http, probe.clients)
       ELSE IF Raised(probe.out) THEN probe
       ELSE Run(Return(PyNone), probe.http, probe.clients)

\* operations.operations: the registry connector.py imports, in insertion order
operations_legacy == <<"lookup_ip", "get_threat_feeds">>

\* dshield_lib.operations (the standalone module registers the same names)
operations_lib ==
    <<"lookup_ip", "get_threat_feeds", "get_top_ports", "get_daily_summary",
      "get_top_attacking_ips">>

Registered(registry, name) == \E i \in 1..Len(registry) : registry[i] = name

\* operation_func(config, operation_params) for a name of operations.operations
OperationFunc(operation, config, params, net) ==
    CASE operation = "lookup_ip" -> lookup_ip_legacy(config, params, net)
      [] operation = "get_threat_feeds" -> get_threat_feeds_legacy(config, params, net)

\* variant of the not-found error: the message names no operation of the registry
NotFound_no_listing(operation) ==
    Raise("ConnectorError", <<"Operation \"", operation, "\" not found. Available operations: ">>)

\* the error of execute for a name operations.get does not find
NotFound(operation) ==
    Raise("ConnectorError",
          <<"Operation \"", operation, "\" not found. Available operations: ">> \o operations_legacy)

\* variant of the handlers: execute has no except clause, every exception passes through
ExecuteHandle_none(out) == out

\* variant of the handlers: every exception is wrapped, a ConnectorError included
ExecuteHandle_wrap_all(out) ==
    IF Returned(out) THEN out
    ELSE IF IsInstance(out.exc, "Exception")
    THEN Raise("ConnectorError", <<"Unexpected error in connector: ">> \o out.exc.msg)
    ELSE out

\* the except clauses of execute: a ConnectorError is re-raised, any other Exception wrapped
ExecuteHandle(out) ==
    IF Returned(out) THEN out
    ELSE IF IsInstance(out.exc, "ConnectorError") THEN out
    ELSE IF IsInstance(out.exc, "Exception")
    THEN Raise("ConnectorError", <<"Unexpected error in connector: ">> \o out.exc.msg)
    ELSE out

\* DShieldConnector.execute
execute(config, operation, operation_params, net) ==
    LET ran == OperationFunc(operation, config, operation_params, net)
    IN IF ~Registered(operations_legacy, operation)
       THEN Run(ExecuteHandle(NotFound(operation)), <<>>, 0)
       ELSE Run(ExecuteHandle(ran.out), ran.http, ran.clients)

\* DShieldConnector.check_health
connector_check_health(config, net) ==
    LET ran == check_health_legacy(config, net)
    IN IF Raised(ran.out) /\ IsInstance(ran.out.exc, "Exception")
       THEN Run(Raise("ConnectorError", <<"Health check failed: ">> \o ran.out.exc.msg),
                ran.http, ran.clients)
       ELSE ran

(***************************************************************************)
(* The command-line scripts of src/scripts.  A script's main() prints to    *)
(* standard output and standard error, may write one file, and returns the *)
(* exit code.                                                              *)
(***************************************************************************)
\* json.dumps(v, indent=2): the text that encodes v
json_dumps(v) == [ty |-> "str", json |-> v]

\* str(v), and the {v} of an f-string
Str(v) == IF IsText(v) THEN v.s ELSE <<ToString(v)>>

\* type(v).__name__
TypeName(v) == v.ty

\* v.get(key, default) of a value: AttributeError unless v is a dict
Get(v, key, default) ==
    IF IsDict(v) THEN Return(IF HasKey(v, key) THEN v.d[key] ELSE default)
    ELSE Raise("AttributeError", <<"'", TypeName(v), "' object has no attribute 'get'">>)

\* the keys of a mapping as a sequence; the model's mappings keep no insertion order,
\* one fixed order stands for it
RECURSIVE KeysOf(_)
KeysOf(keys) ==
    IF keys = {} THEN <<>>
    ELSE LET k == CHOOSE k \in keys : TRUE IN <<k>> \o KeysOf(keys \ {k})

\* '\n'.join(lines)
RECURSIVE JoinLines(_)
JoinLines(lines) ==
    IF lines = <<>> THEN <<>>
    ELSE IF Len(lines) = 1 THEN lines[1]
    ELSE lines[1] \o <<"\n">> \o JoinLines(Tail(lines))

UpperCase ==
    <<"A", "B", "C", "D", "E", "F", "G", "H", "I", "J", "K", "L", "M",
      "N", "O", "P", "Q", "R", "S", "T", "U", "V", "W", "X", "Y", "Z">>

LowerCase ==
    <<"a", "b", "c", "d", "e", "f", "g", "h", "i", "j", "k", "l", "m",
      "n", "o", "p", "q", "r", "s", "t", "u", "v", "w", "x", "y", "z">>

\* str.lower() of a text of single characters
Lower(text) ==
    [i \in 1..Len(text) |->
        IF \E k \in 1..26 : UpperCase[k] = text[i]
        THEN LowerCase[CHOOSE k \in 1..26 : UpperCase[k] = text[i]]
        ELSE text[i]]

\* v.lower() of a value: AttributeError unless v is a str
PyLower(v) ==
    IF IsText(v) THEN Return(Lower(v.s))
    ELSE Raise("AttributeError", <<"'", TypeName(v), "' object has no attribute 'lower'">>)

\* `filter and feed.get(key, '').lower() != filter.lower()` negated: the feed passes the
\* filter on key, or the AttributeError of a value without lower()
FeedPasses(feed, key, filter) ==
    IF ~Truthy(filter) THEN Return(TRUE)
    ELSE LET given == PyLower(IF HasKey(feed, key) THEN feed.d[key] ELSE PyStr(<<>>))
         IN IF Raised(given) THEN given
            ELSE Return(given.value = Lower(filter.s))

\* the loop of apply_filters over feeds: the feeds kept, or the exception of the first
\* feed whose test raises
RECURSIVE FilterFeeds(_, _, _)
FilterFeeds(feeds, filter_type, filter_frequency) ==
    IF feeds = <<>> THEN Return(<<>>)
    ELSE LET feed == Head(feeds)
             by_type == FeedPasses(feed, "type", filter_type)
             by_frequency == FeedPasses(feed, "frequency", filter_frequency)
             rest == FilterFeeds(Tail(feeds), filter_type, filter_frequency)
         IN IF ~IsDict(feed) THEN rest
            ELSE IF Raised(by_type) THEN by_type
            ELSE IF ~by_type.value THEN rest
            ELSE IF Raised(by_frequency) THEN by_frequency
            ELSE IF ~by_frequency.value THEN rest
            ELSE IF Raised(rest) THEN rest
            ELSE Return(<<feed>> \o rest.value)

\* apply_filters(result, filter_type, filter_frequency): what the call gives (out) and the
\* result object as the call leaves it (result), which it changes in place
apply_filters(result, filter_type, filter_frequency) ==
    IF ~IsDict(result) \/ ~HasKey(result, "threat_feeds")
    THEN [out |-> Return(result), result |-> result]
    ELSE IF ~IsList(result.d["threat_feeds"])
    THEN [out |-> Return(result), result |-> result]
    ELSE LET kept == FilterFeeds(result.d["threat_feeds"].items, filter_type, filter_frequency)
             narrowed == SetItem(result, "threat_feeds", PyList(kept.value))
             counted == SetItem(narrowed, "_metadata",
                                SetItem(narrowed.d["_metadata"], "total_feeds",
                                        PyInt(Len(kept.value))))
         IN IF Raised(kept) THEN [out |-> kept, result |-> result]
            ELSE IF ~HasKey(narrowed, "_metadata")
            THEN [out |-> Raise("KeyError", <<"'_metadata'">>), result |-> narrowed]
            ELSE IF ~IsDict(narrowed.d["_metadata"])
            THEN [out |-> Raise("TypeError",
                                <<"'", TypeName(narrowed.d["_metadata"]),
                                  "' object does not support item assignment">>),
                  result |-> narrowed]
            ELSE [out |-> Return(counted), result |-> counted]

Rule == <<"==================================================">>

\* the lines `label: {info.get(key, 'N/A')}` for the keys, in order; info is a dict
FieldLines(info, labels, keys) ==
    [i \in 1..Len(keys) |->
        <<labels[i]>> \o Str(IF HasKey(info, keys[i]) THEN info.d[keys[i]] ELSE PyStr(<<"N/A">>))]

\* the '_metadata' lines of format_ip_result_table
IpMetadataLines(result) ==
    IF HasKey(result, "_metadata")
    THEN IF IsDict(result.d["_metadata"])
         THEN Return(<<<<"\nMetadata:">>>>
                     \o FieldLines(result.d["_metadata"],
                                   <<"  Source: ", "  Connector Version: ", "  Query IP: ">>,
                                   <<"source", "connector_version", "query_ip">>))
         ELSE Get(result.d["_metadata"], "source", PyNone)
    ELSE Return(<<>>)

\* the lines of one entry of ip_info['threatfeeds']
ThreatFeedLines(feed_name, feed_data) ==
    IF ~Truthy(feed_data) THEN Return(<<>>)
    ELSE IF ~IsDict(feed_data) THEN Get(feed_data, "firstseen", PyNone)
    ELSE Return(<<<<"  ", feed_name, ":">>>>
                \o FieldLines(feed_data, <<"    First Seen: ", "    Last Seen: ">>,
                              <<"firstseen", "lastseen">>))

\* the loop over ip_info['threatfeeds'].items()
RECURSIVE ThreatFeedsLines(_, _)
ThreatFeedsLines(feeds, names) ==
    IF names = <<>> THEN Return(<<>>)
    ELSE LET first == ThreatFeedLines(Head(names), feeds.d[Head(names)])
             rest == ThreatFeedsLines(feeds, Tail(names))
         IN IF Raised(first) THEN first
            ELSE IF Raised(rest) THEN rest
            ELSE Return(first.value \o rest.value)

\* the 'ip' block of format_ip_result_table
IpInfoLines(ip_info) ==
    LET basic == FieldLines(ip_info,
                            <<"IP Address: ", "Network: ", "AS Number: ", "AS Name: ",
                              "AS Country: ", "AS Size: ", "Attack Count: ", "Max Risk: ",
                              "First Seen: ", "Last Seen: ", "Updated: ">>,
                            <<"number", "network", "as", "asname", "ascountry", "assize",
                              "count", "maxrisk", "mindate", "maxdate", "updated">>)
        has_alexa == HasKey(ip_info, "alexa") /\ Truthy(ip_info.d["alexa"])
        alexa == IF ~has_alexa THEN Return(<<>>)
                 ELSE IF ~IsDict(ip_info.d["alexa"]) THEN Get(ip_info.d["alexa"], "hostname", PyNone)
                 ELSE Return(<<<<"\nAlexa Information:">>>>
                             \o FieldLines(ip_info.d["alexa"],
                                           <<"  Hostname: ", "  Last Rank: ", "  First Seen: ",
                                             "  Last Seen: ", "  Domains: ">>,
                                           <<"hostname", "lastrank", "firstseen", "lastseen",
                                             "domains">>))
        has_feeds == HasKey(ip_info, "threatfeeds") /\ Truthy(ip_info.d["threatfeeds"])
        feeds == IF ~has_feeds THEN Return(<<>>)
                 ELSE IF ~IsDict(ip_info.d["threatfeeds"])
                 THEN Raise("AttributeError",
                            <<"'", TypeName(ip_info.d["threatfeeds"]),
                              "' object has no attribute 'items'">>)
                 ELSE LET listed == ThreatFeedsLines(ip_info.d["threatfeeds"],
                                                     KeysOf(DOMAIN ip_info.d["threatfeeds"].d))
                      IN IF Raised(listed) THEN listed
                         ELSE Return(<<<<"\nThreat Feed Information:">>>> \o listed.value)
    IN IF ~IsDict(ip_info) THEN Get(ip_info, "number", PyNone)
       ELSE IF Raised(alexa) THEN alexa
       ELSE IF Raised(feeds) THEN feeds
       ELSE Return(basic \o alexa.value \o feeds.value)

\* format_ip_result_table(result) of dshield_dev_lookup_ip.py
format_ip_result_table(result) ==
    LET block == IF HasKey(result, "ip") THEN IpInfoLines(result.d["ip"]) ELSE Return(<<>>)
        meta == IpMetadataLines(result)
    IN IF ~IsDict(result) THEN Return(PyStr(Str(result)))
       ELSE IF Raised(block) THEN block
       ELSE IF Raised(meta) THEN meta
       ELSE Return(PyStr(JoinLines(<<<<"DShield IP Lookup Results">>, Rule>>
                                   \o block.value \o meta.value)))

\* the lines of the feeds of a list, numbered, with the given labels and keys
RECURSIVE FeedListLines(_, _, _, _, _)
FeedListLines(feeds, i, indent, labels, keys) ==
    IF i > Len(feeds) THEN <<>>
    ELSE (IF IsDict(feeds[i])
          THEN <<<<indent, ToString(i), ". ">>
                   \o Str(IF HasKey(feeds[i], "name") THEN feeds[i].d["name"]
                          ELSE PyStr(<<"Unknown">>))>>
               \o FieldLines(feeds[i], labels, keys)
               \o (IF indent = "" THEN <<<<>>>> ELSE <<>>)
          ELSE <<>>)
         \o FeedListLines(feeds, i + 1, indent, labels, keys)

\* format_threat_feeds_table(result) of dshield_dev_get_threat_feeds.py
format_threat_feeds_table(result) ==
    LET meta == IF ~HasKey(result, "_metadata") THEN Return(<<>>)
                ELSE IF ~IsDict(result.d["_metadata"])
                THEN Get(result.d["_metadata"], "total_feeds", PyNone)
                ELSE Return(<<<<"Total Feeds: ">>
                                \o Str(IF HasKey(result.d["_metadata"], "total_feeds")
                                       THEN result.d["_metadata"].d["total_feeds"]
                                       ELSE PyInt(0))>>
                            \o FieldLines(result.d["_metadata"],
                                          <<"Source: ", "Connector Version: ">>,
                                          <<"source", "connector_version">>)
                            \o <<<<>>>>)
        feeds == result.d["threat_feeds"]
        listing == IF HasKey(result, "threat_feeds") /\ IsList(feeds)
                   THEN IF Truthy(feeds)
                        THEN <<<<"Available Threat Feeds:">>,
                               <<"------------------------------">>>>
                             \o FeedListLines(feeds.items, 1, "",
                                              <<"   Description: ", "   Type: ",
                                                "   Data Type: ", "   Frequency: ",
                                                "   Last Update: ">>,
                                              <<"description", "type", "datatype",
                                                "frequency", "lastupdate">>)
                        ELSE <<<<"No threat feeds available.">>>>
                   ELSE <<<<"No threat feeds data found.">>>>
    IN IF ~IsDict(result) THEN Return(PyStr(Str(result)))
       ELSE IF Raised(meta) THEN meta
       ELSE Return(PyStr(JoinLines(<<<<"DShield Threat Feeds">>, Rule>>
                                   \o meta.value \o listing)))

\* the `key: value` lines of a mapping for every key but '_metadata'
KeyValueLines(result, indent) ==
    LET keys == KeysOf(DOMAIN result.d \ {"_metadata"})
    IN [i \in 1..Len(keys) |-> <<indent, keys[i], ": ">> \o Str(result.d[keys[i]])]

\* str.title() of an operation name with '_' replaced by ' '
OperationTitle(operation) ==
    CASE operation = "lookup_ip" -> "Lookup Ip"
      [] operation = "get_threat_feeds" -> "Get Threat Feeds"
      [] operation = "get_top_ports" -> "Get Top Ports"
      [] operation = "get_daily_summary" -> "Get Daily Summary"
      [] operation = "get_top_attacking_ips" -> "Get Top Attacking Ips"

\* the '_metadata' lines of format_result_table
ResultMetadataLines(result) ==
    LET meta == result.d["_metadata"]
        optional(label, key) ==
            IF HasKey(meta, key) THEN <<<<label>> \o Str(meta.d[key])>> ELSE <<>>
    IN IF ~HasKey(result, "_metadata") THEN Return(<<>>)
       ELSE IF ~IsDict(meta) THEN Get(meta, "source", PyNone)
       ELSE Return(FieldLines(meta, <<"Source: ", "Connector Version: ">>,
                              <<"source", "connector_version">>)
                   \o optional("Query IP: ", "query_ip")
                   \o optional("Total Feeds: ", "total_feeds")
                   \o <<<<>>>>)

\* format_ip_info(ip_info) of dshield_dev_operations.py
format_ip_info(ip_info) ==
    IF ~IsDict(ip_info) THEN Get(ip_info, "number", PyNone)
    ELSE Return(<<<<"IP Information:">>>>
                \o FieldLines(ip_info,
                              <<"  IP Address: ", "  Network: ", "  AS Number: ", "  AS Name: ",
                                "  AS Country: ", "  Attack Count: ", "  Max Risk: ">>,
                              <<"number", "network", "as", "asname", "ascountry", "count",
                                "maxrisk">>))

\* format_threat_feeds(feeds) of dshield_dev_operations.py
format_threat_feeds(feeds) ==
    <<<<"Available Threat Feeds:">>>>
    \o (IF IsList(feeds) /\ Truthy(feeds)
        THEN FeedListLines(feeds.items, 1, "  ", <<"     Type: ", "     Frequency: ">>,
                           <<"type", "frequency">>)
        ELSE <<<<"  No threat feeds available.">>>>)

\* format_result_table(operation, result) of dshield_dev_operations.py
format_result_table(operation, result) ==
    LET meta == ResultMetadataLines(result)
        body == IF operation = "lookup_ip" /\ HasKey(result, "ip")
                THEN format_ip_info(result.d["ip"])
                ELSE IF operation = "get_threat_feeds" /\ HasKey(result, "threat_feeds")
                THEN Return(format_threat_feeds(result.d["threat_feeds"]))
                ELSE IF operation = "get_top_ports"
                THEN Return(<<<<"Top Ports Information:">>>> \o KeyValueLines(result, "  "))
                ELSE IF operation = "get_daily_summary"
                THEN Return(<<<<"Daily Summary:">>>> \o KeyValueLines(result, "  "))
                ELSE IF operation = "get_top_attacking_ips"
                THEN Return(<<<<"Top Attacking IPs:">>>> \o KeyValueLines(result, "  "))
                ELSE Return(KeyValueLines(result, ""))
    IN IF ~IsDict(result) THEN Return(PyStr(Str(result)))
       ELSE IF Raised(meta) THEN meta
       ELSE IF Raised(body) THEN body
       ELSE Return(PyStr(JoinLines(<<<<"DShield ", OperationTitle(operation), " Results">>, Rule>>
                                   \o meta.value \o body.value)))

\* the operation a script imports from standalone_operations
StandaloneOperation(operation, config, params, net) ==
    CASE operation = "lookup_ip" -> lookup_ip("standalone", config, params, net)
      [] operation = "get_threat_feeds" -> get_threat_feeds("standalone", config, params, net)
      [] operation = "get_top_ports" -> get_top_ports("standalone", config, params, net)
      [] operation = "get_daily_summary" -> get_daily_summary_standalone(config, params, net)
      [] operation = "get_top_attacking_ips" ->
             get_top_attacking_ips("standalone", config, params, net)

\* config = {'server_url': args.server_url, 'timeout': args.timeout}
ScriptConfig(args) == [server_url |-> args.server_url, timeout |-> args.timeout]

Dashes == <<"--------------------------------------------------">>

\* the lines a script prints before it runs the operation
Banner(script, args) ==
    CASE script = "dshield_dev_lookup_ip" ->
             <<PyStr(<<"Looking up IP: ">> \o Str(args.ip)),
               PyStr(<<"Server: ">> \o args.server_url), PyStr(Dashes)>>
      [] script = "dshield_dev_get_threat_feeds" ->
             <<PyStr(<<"Retrieving threat feeds from DShield...">>),
               PyStr(<<"Server: ">> \o args.server_url), PyStr(Dashes)>>
      [] script = "dshield_dev_operations" ->
             <<PyStr(<<"Performing operation: ", args.operation>>),
               PyStr(<<"Server: ">> \o args.server_url), PyStr(Dashes)>>

\* variant of the check of --ip: only an absent --ip stops the script, for every operation
StopsEarly_any_operation(script, args) ==
    script = "dshield_dev_operations" /\ args.ip = PyNone

\* dshield_dev_operations.py stops before the operation: lookup_ip without --ip
StopsEarly(script, args) ==
    script = "dshield_dev_operations" /\ args.operation = "lookup_ip" /\ ~Truthy(args.ip)

\* the operation call of a script's main(): its outcome and the requests it issued
ScriptOperation(script, args, net) ==
    LET config == ScriptConfig(args)
        given == IF Truthy(args.ip) THEN [ip |-> args.ip.s] ELSE EmptyMap
    IN CASE script = "dshield_dev_lookup_ip" ->
                lookup_ip("standalone", config, [ip |-> args.ip.s], net)
         [] script = "dshield_dev_get_threat_feeds" ->
                get_threat_feeds("standalone", config, EmptyMap, net)
         [] script = "dshield_dev_operations" ->
                StandaloneOperation(args.operation, config, given, net)

\* `if args.filter_type or args.filter_frequency: result = apply_filters(...)` of the
\* threat-feeds script, for an operation that returned
Filtered(script, args, out) ==
    IF script = "dshield_dev_get_threat_feeds"
       /\ (Truthy(args.filter_type) \/ Truthy(args.filter_frequency))
    THEN apply_filters(out.value, args.filter_type, args.filter_frequency).out
    ELSE out

\* json.dumps or the table formatter of the script, applied to the filtered result
Formatted(script, args, filtered) ==
    IF Raised(filtered) THEN filtered
    ELSE IF args.output = "json" THEN Return(json_dumps(filtered.value))
    ELSE CASE script = "dshield_dev_lookup_ip" -> format_ip_result_table(filtered.value)
           [] script = "dshield_dev_get_threat_feeds" ->
                  format_threat_feeds_table(filtered.value)
           [] script = "dshield_dev_operations" ->
                  format_result_table(args.operation, filtered.value)

\* the steps of main() from the operation's outcome to the output text
Render(script, args, out) ==
    IF Raised(out) THEN out ELSE Formatted(script, args, Filtered(script, args, out))

\* print(..., file=sys.stderr) of the except clauses of main()
ErrorLine(exc) ==
    IF IsInstance(exc, "DShieldError") THEN PyStr(<<"DShield Error: ">> \o exc.msg)
    ELSE PyStr(<<"Error: ">> \o exc.msg)

\* variant of the last steps: the output file is opened before the output text exists
ScriptFinish_open_first(banner, rendered, args, fs) ==
    IF Raised(rendered)
    THEN [code |-> 1, stdout |-> banner, stderr |-> <<ErrorLine(rendered.exc)>>,
          files |-> IF Truthy(args.save_to_file) /\ fs # "open_fails"
                    THEN <<[path |-> args.save_to_file.s, content |-> PyStr(<<>>)]>>
                    ELSE <<>>]
    ELSE [code |-> 0, stdout |-> Append(banner, rendered.value), stderr |-> <<>>,
          files |-> IF Truthy(args.save_to_file)
                    THEN <<[path |-> args.save_to_file.s, content |-> rendered.value]>>
                    ELSE <<>>]

\* the last steps of main(): print(output), the optional open and write of the file, the
\* exit code; fs is what the file system does with the open and the write
ScriptFinish(banner, rendered, args, fs) ==
    LET printed == Append(banner, rendered.value)
        path == args.save_to_file.s
    IN IF Raised(rendered)
       THEN [code |-> 1, stdout |-> banner, stderr |-> <<ErrorLine(rendered.exc)>>,
             files |-> <<>>]
       ELSE IF ~Truthy(args.save_to_file)
       THEN [code |-> 0, stdout |-> printed, stderr |-> <<>>, files |-> <<>>]
       ELSE CASE fs = "ok" ->
                     [code |-> 0,
                      stdout |-> Append(printed, PyStr(<<"\nResults saved to: ">> \o path)),
                      stderr |-> <<>>,
                      files |-> <<[path |-> path, content |-> rendered.value]>>]
              [] fs = "open_fails" ->
                     [code |-> 1, stdout |-> printed,
                      stderr |-> <<ErrorLine(Exc("OSError", <<"cannot open ">> \o path))>>,
                      files |-> <<>>]
              [] fs = "write_fails" ->
                     [code |-> 1, stdout |-> printed,
                      stderr |-> <<ErrorLine(Exc("OSError", <<"cannot write ">> \o path))>>,
                      files |-> <<[path |-> path, content |-> PyStr(<<>>)]>>]

\* what main() leaves behind: the exit code with the requests of the operation (ran) and
\* the texts and files of the last steps (done)
Exited(ran, done) ==
    [out |-> Return(PyInt(done.code)), http |-> ran.http, clients |-> ran.clients,
     stdout |-> done.stdout, stderr |-> done.stderr, files |-> done.files]

\* main() from the point where the operation has run
AfterOperation(script, args, fs, ran) ==
    Exited(ran, ScriptFinish(Banner(script, args), Render(script, args, ran.out), args, fs))

\* main() of a script for parsed arguments args
main(script, args, net, fs) ==
    IF StopsEarly(script, args)
    THEN [out |-> Return(PyInt(1)), http |-> <<>>, clients |-> 0,
          stdout |-> Banner(script, args),
          stderr |-> <<PyStr(<<"Error: --ip parameter is required for lookup_ip operation">>)>>,
          files |-> <<>>]
    ELSE AfterOperation(script, args, fs, ScriptOperation(script, args, net))

(***************************************************************************)
(* The inputs the invocations are drawn from.                              *)
(***************************************************************************)
Host == <<"dshield.org">>

Configs ==
    { [server_url |-> Host, api_key |-> <<"key">>, timeout |-> 10],
      [server_url |-> Https \o Host \o <<"/">>],
      [server_url |-> <<" ">>, api_key |-> <<"key">>],
      [api_key |-> <<"key">>] }

\* the ip parameters of the specification's examples, as characters
IpSamples ==
    { <<>>,
      <<" ", " ">>,
      <<"8", ".", "8", ".", "8", ".", "8">>,
      <<" ", "8", ".", "8", ".", "8", ".", "8", "\n">>,
      <<"9", "9", "9", ".", "1", ".", "1", ".", "1">>,
      <<"n", "o", "t", "-", "a", "n", "-", "i", "p">> }

IpParams == {EmptyMap} \cup {[ip |-> t] : t \in IpSamples}

GoodDaily == [date |-> WithText(<<"d">>), records |-> WithText(<<"1", "0">>),
              sources |-> WithText(<<"3">>), targets |-> WithText(<<"2">>)]

XmlSamples ==
    { [wellformed |-> FALSE, daily |-> <<>>],
      [wellformed |-> TRUE, daily |-> <<>>],
      [wellformed |-> TRUE, daily |-> <<GoodDaily>>],
      [wellformed |-> TRUE, daily |-> <<[GoodDaily EXCEPT !.records = NoText]>>] }

Feed(type, frequency) ==
    PyDict([name |-> PyStr(<<"feed">>), type |-> PyStr(<<type>>), frequency |-> PyStr(<<frequency>>)])

JsonSamples ==
    { PyDict([count |-> PyInt(5)]),
      PyDict(EmptyMap),
      PyDict([error |-> PyStr(<<"upstream: ", "Empty response">>)]),
      PyDict([error |-> PyStr(<<"bad query">>)]),
      PyDict([error |-> PyInt(1)]),
      PyList(<<>>),
      PyList(<<Feed("scan", "daily")>>),
      PyInt(0),
      PyInt(7),
      PyNone,
      PyStr(<<"ok">>) }

FailStatuses == {404, 429, 503, 418}

NetFailures ==
    { NetRaise("ReadTimeout", <<"read timed out">>),
      NetRaise("ConnectTimeout", <<"connect timed out">>),
      NetRaise("ConnectionError", <<"connection refused">>),
      NetRaise("SSLError", <<"certificate verify failed">>),
      NetRaise("TooManyRedirects", <<"exceeded 30 redirects">>),
      NetRaise("ValueError", <<"invalid header value">>) }

Nets ==
    NetFailures
    \cup {NetAnswer(code, BlankBody) : code \in FailStatuses}
    \cup {NetAnswer(200, BlankBody), NetAnswer(204, BlankBody), NetAnswer(200, TextBody)}
    \cup {NetAnswer(200, XmlBody(doc)) : doc \in XmlSamples}
    \cup {NetAnswer(200, JsonBody(v)) : v \in JsonSamples}

Modules == {"lib", "standalone"}

\* server_url values a client is constructed with
UrlSamples ==
    { Host,
      Host \o <<"/">>,
      Https \o Host,
      Https \o Host \o <<"/">>,
      Https \o Host \o <<"/", "api">>,
      Https \o Host \o <<"/", "api", "/">>,
      Host \o <<"/", "api", "/">>,
      Http \o Host,
      <<" ">> \o Host \o <<" ">> }

UrlConfigs == {[server_url |-> url, api_key |-> <<"key">>] : url \in UrlSamples}

AllModules == {"lib", "standalone", "legacy"}

\* the parsed command lines of the scripts
ServerUrls == {Https \o <<"www.dshield.org">>, Host}

ScriptIps == {PyStr(<<"8", ".", "8", ".", "8", ".", "8">>),
              PyStr(<<"n", "o", "t", "-", "a", "n", "-", "i", "p">>)}

SavePaths == {PyNone, PyStr(<<"out.txt">>)}

FilterTexts == {PyNone, PyStr(<<"S", "c", "a", "n">>)}

\* the choices of the positional argument of dshield_dev_operations.py
ScriptOperations ==
    {"lookup_ip", "get_threat_feeds", "get_top_ports", "get_daily_summary",
     "get_top_attacking_ips"}

FileSystems == {"ok", "open_fails", "write_fails"}

ScriptArgs(ips, operations, filters) ==
    [ip : ips, operation : operations, server_url : ServerUrls, timeout : {30},
     output : {"json", "table"}, save_to_file : SavePaths,
     filter_type : filters, filter_frequency : filters]

CallerHeaders == {EmptyMap, [Accept |-> <<"text/xml">>]}

OperationNames ==
    {"lookup_ip", "get_threat_feeds", "get_top_ports", "get_daily_summary",
     "get_top_attacking_ips", "no_such_operation"}

(***************************************************************************)
(* The state machine: one invocation, from the idle state.                 *)
(***************************************************************************)
Idle == call.module = "none"

Init ==
    /\ call = [module |-> "none"]
    /\ http = <<>>
    /\ clients = 0
    /\ outcome = [kind |-> "none"]
    /\ stdout = <<>>
    /\ stderr = <<>>
    /\ files = <<>>

\* the state after the invocation `op` of `module` ran as `run`; nets are what the
\* transport did for the requests issued
Invoked(module, op, config, params, nets, run) ==
    /\ call' = [module |-> module, op |-> op, config |-> config, params |-> params,
                nets |-> SubSeq(nets, 1, Len(run.http))]
    /\ http' = run.http
    /\ clients' = run.clients
    /\ outcome' = run.out
    /\ UNCHANGED <<stdout, stderr, files>>

\* DShield(config).make_rest_call(endpoint, headers=headers) called by a user of the client
MakeRestCall ==
    /\ Idle
    /\ \E mod \in Modules, config \in Configs, headers \in CallerHeaders, net \in Nets :
           LET made == DShield_init(mod, config)
           IN Invoked(mod, "make_rest_call", config, [headers |-> headers], <<net>>,
                      IF Raised(made)
                      THEN Run(made, <<>>, 1)
                      ELSE Run(make_rest_call(mod, made.value, net),
                               <<Request(made.value, <<"/topports/?json">>, headers)>>, 1))

\* lookup_ip of dshield_lib or of the standalone module, its inputs drawn from the sets given
LookupIp(ips, configs, nets) ==
    /\ Idle
    /\ \E mod \in Modules, config \in configs, params \in ips, net \in nets :
           Invoked(mod, "lookup_ip", config, params, <<net>>,
                   lookup_ip(mod, config, params, net))

GetThreatFeeds ==
    /\ Idle
    /\ \E mod \in Modules, config \in Configs, net \in Nets :
           Invoked(mod, "get_threat_feeds", config, EmptyMap, <<net>>,
                   get_threat_feeds(mod, config, EmptyMap, net))

GetTopPorts ==
    /\ Idle
    /\ \E mod \in Modules, config \in Configs, net \in Nets :
           Invoked(mod, "get_top_ports", config, EmptyMap, <<net>>,
                   get_top_ports(mod, config, EmptyMap, net))

GetTopAttackingIps ==
    /\ Idle
    /\ \E mod \in Modules, config \in Configs, net \in Nets :
           Invoked(mod, "get_top_attacking_ips", config, EmptyMap, <<net>>,
                   get_top_attacking_ips(mod, config, EmptyMap, net))

\* the host get_daily_summary; tries holds, for the three endpoints in order, what the
\* transport does when the endpoint is requested
GetDailySummaryLib(configs, tries) ==
    /\ Idle
    /\ \E config \in configs, nets \in tries :
           Invoked("lib", "get_daily_summary", config, EmptyMap, nets,
                   get_daily_summary_lib(config, EmptyMap, nets))

GetDailySummaryStandalone ==
    /\ Idle
    /\ \E config \in Configs, net \in Nets :
           Invoked("standalone", "get_daily_summary", config, EmptyMap, <<net>>,
                   get_daily_summary_standalone(config, EmptyMap, net))

CheckHealth ==
    /\ Idle
    /\ \E mod \in Modules, config \in Configs, net \in Nets :
           Invoked(mod, "check_health", config, EmptyMap, <<net>>,
                   check_health(mod, config, net))

ConnectorExecute ==
    /\ Idle
    /\ \E config \in Configs, operation \in OperationNames, params \in IpParams, net \in Nets :
           Invoked("connector", operation, config, params, <<net>>,
                   execute(config, operation, params, net))

ConnectorCheckHealth ==
    /\ Idle
    /\ \E config \in Configs, net \in Nets :
           Invoked("connector", "check_health", config, EmptyMap, <<net>>,
                   connector_check_health(config, net))

\* DShield(config) of one of the three modules: the outcome is the client
Construct ==
    /\ Idle
    /\ \E mod \in AllModules, config \in UrlConfigs \cup Configs :
           Invoked(mod, "__init__", config, EmptyMap, <<>>,
                   Run(DShield_init(mod, config), <<>>, 1))

\* the state after main() of a script ran; server is what the server would answer
ScriptInvoked(script, args, net, fs, run) ==
    /\ call' = [module |-> "cli", op |-> script, args |-> args, config |-> ScriptConfig(args),
                server |-> net, fs |-> fs, nets |-> SubSeq(<<net>>, 1, Len(run.http))]
    /\ http' = run.http
    /\ clients' = run.clients
    /\ outcome' = run.out
    /\ stdout' = run.stdout
    /\ stderr' = run.stderr
    /\ files' = run.files

\* python dshield_dev_lookup_ip.py --ip IP [...]
CliLookupIp ==
    /\ Idle
    /\ \E args \in ScriptArgs(ScriptIps \cup {PyStr(<<>>)}, {"lookup_ip"}, {PyNone}),
          net \in Nets, fs \in FileSystems :
           ScriptInvoked("dshield_dev_lookup_ip", args, net, fs,
                         main("dshield_dev_lookup_ip", args, net, fs))

\* python dshield_dev_get_threat_feeds.py [...]
CliGetThreatFeeds ==
    /\ Idle
    /\ \E args \in ScriptArgs({PyNone}, {"get_threat_feeds"}, FilterTexts),
          net \in Nets, fs \in FileSystems :
           ScriptInvoked("dshield_dev_get_threat_feeds", args, net, fs,
                         main("dshield_dev_get_threat_feeds", args, net, fs))

\* python dshield_dev_operations.py OPERATION [...]
CliOperations ==
    /\ Idle
    /\ \E args \in ScriptArgs(ScriptIps \cup {PyNone, PyStr(<<>>)}, ScriptOperations, {PyNone}),
          net \in Nets, fs \in FileSystems :
           ScriptInvoked("dshield_dev_operations", args, net, fs,
                         main("dshield_dev_operations", args, net, fs))

Next ==
    \/ MakeRestCall
    \/ LookupIp(IpParams, Configs, Nets)
    \/ GetThreatFeeds
    \/ GetTopPorts
    \/ GetTopAttackingIps
    \/ GetDailySummaryLib(Configs, Nets \X Nets \X Nets)
    \/ GetDailySummaryStandalone
    \/ CheckHealth
    \/ ConnectorExecute
    \/ ConnectorCheckHealth
    \/ CliLookupIp
    \/ CliGetThreatFeeds
    \/ CliOperations
    \/ Construct

Spec == Init /\ [][Next]_vars

(***************************************************************************)
(* Address validation over generated addresses: up to MaxOctets fields     *)
(* separated by dots, one of them any text of up to MaxOctetLen characters *)
(* of OctetAlphabet and the others "25", with or without blanks around.    *)
(***************************************************************************)
MaxOctets == 4
MaxOctetLen == 3

OctetAlphabet == {"0", "2", "5", "6", "a"}

RECURSIVE TextsUpTo(_, _)
TextsUpTo(alphabet, n) ==
    IF n = 0 THEN {<<>>}
    ELSE LET shorter == TextsUpTo(alphabet, n - 1)
         IN shorter \cup {Append(t, c) : t \in shorter, c \in alphabet}

RECURSIVE Dotted(_)
Dotted(fields) ==
    IF Len(fields) = 1 THEN fields[1]
    ELSE fields[1] \o <<".">> \o Dotted(Tail(fields))

IpProbes ==
    { lead \o Dotted([k \in 1..n |-> IF k = p THEN field ELSE <<"2", "5">>]) \o trail :
        n \in 1..MaxOctets, p \in 1..MaxOctets, field \in TextsUpTo(OctetAlphabet, MaxOctetLen),
        lead \in {<<>>, <<" ">>}, trail \in {<<>>, <<"\n">>} }

IpProbeParams == {[ip |-> t] : t \in IpProbes}

ProbeConfigs == {[server_url |-> Host, api_key |-> <<"key">>]}

ProbeNets == {NetAnswer(200, JsonBody(PyDict([count |-> PyInt(5)]))),
              NetRaise("ConnectionError", <<"connection refused">>)}

NextIp == LookupIp(IpProbeParams, ProbeConfigs, ProbeNets)

SpecIp == Init /\ [][NextIp]_vars

(***************************************************************************)
(* Daily summaries over generated documents: up to MaxDaily 'daily'        *)
(* elements, each child absent, without text, or with one of the texts.    *)
(***************************************************************************)
MaxDaily == 2

CountTexts ==
    {<<"7">>, <<"1", "0">>, <<"0", "4">>, <<"x">>, <<"1", "x">>, <<"-", "1">>}

DailyElements ==
    { [date |-> IF sources = Absent THEN Absent ELSE WithText(<<"d">>),
       records |-> records, sources |-> sources, targets |-> targets] :
        records \in {Absent, NoText} \cup {WithText(t) : t \in CountTexts},
        sources \in {Absent, WithText(<<"3">>)},
        targets \in {NoText, WithText(<<"2">>)} }

RECURSIVE SeqsUpTo(_, _)
SeqsUpTo(S, n) ==
    IF n = 0 THEN {<<>>}
    ELSE LET shorter == SeqsUpTo(S, n - 1)
         IN shorter \cup {Append(q, x) : q \in shorter, x \in S}

XmlDocs == {[wellformed |-> TRUE, daily |-> q] : q \in SeqsUpTo(DailyElements, MaxDaily)}

XmlTries ==
    {<<NetAnswer(200, XmlBody(doc)), NetAnswer(200, BlankBody), NetAnswer(200, BlankBody)>> :
        doc \in XmlDocs}

NextXml == GetDailySummaryLib(ProbeConfigs, XmlTries)

SpecXml == Init /\ [][NextXml]_vars

(***************************************************************************)
(* apply_filters on its own: the threat-feeds script calls it on the result *)
(* of get_threat_feeds when at least one of the two filters is given.       *)
(***************************************************************************)
MaxFeeds == 2

Scan == <<"s", "c", "a", "n">>

\* entries of a threat_feeds list as the server's JSON may hold them
FeedEntries ==
    { PyDict([name |-> PyStr(<<"a">>), type |-> PyStr(Scan), frequency |-> PyStr(<<"d">>)]),
      PyDict([name |-> PyStr(<<"b">>), type |-> PyStr(<<"S", "c", "a", "n">>),
              frequency |-> PyStr(<<"D">>)]),
      PyDict([name |-> PyStr(<<"c">>), type |-> PyStr(<<"m">>), frequency |-> PyStr(<<"d">>)]),
      PyDict([name |-> PyStr(<<"d">>), frequency |-> PyStr(<<"h">>)]),
      PyDict([name |-> PyStr(<<"e">>), type |-> PyNone, frequency |-> PyStr(<<"d">>)]),
      PyStr(<<"f">>) }

FeedResults ==
    { PyDict([threat_feeds |-> PyList(feeds),
              _metadata |-> PyDict(Put(Metadata, "total_feeds", PyInt(Len(feeds))))]) :
        feeds \in SeqsUpTo(FeedEntries, MaxFeeds) }

FilterArgs == {PyNone, PyStr(Scan), PyStr(<<"S", "C", "A", "N">>), PyStr(<<"d">>)}

\* result = apply_filters(result, args.filter_type, args.filter_frequency)
ApplyFilters ==
    /\ Idle
    /\ \E result \in FeedResults, filter_type \in FilterArgs, filter_frequency \in FilterArgs :
           /\ Truthy(filter_type) \/ Truthy(filter_frequency)
           /\ call' = [module |-> "dshield_dev_get_threat_feeds", op |-> "apply_filters",
                       result |-> result, filter_type |-> filter_type,
                       filter_frequency |-> filter_frequency]
           /\ outcome' = apply_filters(result, filter_type, filter_frequency).out
           /\ UNCHANGED <<http, clients, stdout, stderr, files>>

NextFilters == ApplyFilters

SpecFilters == Init /\ [][NextFilters]_vars

(***************************************************************************)
(* One client used for several make_rest_call calls in a row: call.client  *)
(* is the client object as the calls leave it, call.made the object as the *)
(* constructor built it, call.headers the headers argument of each call.   *)
(***************************************************************************)
MaxCalls == 2

SessionHeaders ==
    {EmptyMap, [Accept |-> <<"text/xml">>], [Trace |-> <<"on">>, Accept |-> <<"*/*">>]}

SessionNets ==
    {NetAnswer(200, JsonBody(PyDict([count |-> PyInt(5)]))),
     NetAnswer(204, BlankBody),
     NetAnswer(503, TextBody),
     NetRaise("ReadTimeout", <<"read timed out">>)}

\* variant of the header merge: the caller's headers are merged into self.headers itself
ClientAfterCall_merge_in_place(client, headers) ==
    [client EXCEPT !.headers = [h \in (DOMAIN client.headers) \cup (DOMAIN headers) |->
                                   IF h \in DOMAIN headers THEN headers[h]
                                   ELSE client.headers[h]]]

\* the client object after make_rest_call: request_headers is a copy of self.headers, and
\* nothing is assigned to an attribute of self
ClientAfterCall(client, headers) == client

\* client = DShield(config)
ClientConstruct ==
    /\ Idle
    /\ \E mod \in Modules, config \in Configs :
           LET made == DShield_init(mod, config)
           IN /\ Returned(made)
              /\ call' = [module |-> mod, op |-> "session", config |-> config,
                          made |-> made.value, client |-> made.value,
                          headers |-> <<>>, nets |-> <<>>]
              /\ outcome' = Return(PyNone)
              /\ clients' = 1
              /\ UNCHANGED <<http, stdout, stderr, files>>

\* client.make_rest_call('/topports/?json', headers=headers) on the client of the session
ClientCall ==
    /\ ~Idle /\ call.op = "session"
    /\ Len(http) < MaxCalls
    /\ \E headers \in SessionHeaders, net \in SessionNets :
           /\ http' = Append(http, Request(call.client, <<"/topports/?json">>, headers))
           /\ outcome' = make_rest_call(call.module, call.client, net)
           /\ call' = [call EXCEPT !.client = ClientAfterCall(call.client, headers),
                                   !.headers = Append(@, headers),
                                   !.nets = Append(@, net)]
           /\ UNCHANGED <<clients, stdout, stderr, files>>

NextClient ==
    \/ ClientConstruct
    \/ ClientCall

SpecClient == Init /\ [][NextClient]_vars

(***************************************************************************)
(* What the claims speak of.                                               *)
(***************************************************************************)
IsError(cls, msg) == Raised(outcome) /\ outcome.exc = Exc(cls, msg)

\* the text without the blanks before its first and after its last non-blank character
Trimmed(text) ==
    LET kept == {i \in 1..Len(text) : text[i] \notin Whitespace}
    IN IF kept = {} THEN <<>>
       ELSE SubSeq(text, CHOOSE i \in kept : \A j \in kept : i <= j,
                         CHOOSE i \in kept : \A j \in kept : i >= j)

\* one to three decimal digits, at most 255 once a third digit is there
IsOctet(text) ==
    /\ Len(text) \in 1..3
    /\ \A i \in 1..Len(text) : text[i] \in Digits
    /\ Len(text) = 3 => ParseInt(text) <= 255

\* four octets separated by three dots
IsDottedQuad(text) ==
    \E a \in 1..Len(text), b \in 1..Len(text), c \in 1..Len(text) :
        /\ a < b /\ b < c
        /\ text[a] = "." /\ text[b] = "." /\ text[c] = "."
        /\ IsOctet(SubSeq(text, 1, a - 1))
        /\ IsOctet(SubSeq(text, a + 1, b - 1))
        /\ IsOctet(SubSeq(text, b + 1, c - 1))
        /\ IsOctet(SubSeq(text, c + 1, Len(text)))

LookupCalled == call.module \in Modules /\ call.op = "lookup_ip"

GivenIp == Trimmed(CfgGet(call.params, "ip", <<>>))

\* C1: lookup_ip of the shared library and of the standalone module fails with
\* 'IP address parameter is required' when the trimmed ip is empty, and with a
\* DShield error containing 'Invalid IP address format' when it is not empty and
\* not a dotted quad; in both cases no client is constructed and no request is issued.
C1_InvalidIpRejected ==
    LookupCalled =>
        /\ GivenIp = <<>> =>
              /\ IsError("DShieldError", <<"IP address parameter is required">>)
              /\ clients = 0 /\ http = <<>>
        /\ (GivenIp # <<>> /\ ~IsDottedQuad(GivenIp)) =>
              /\ Raised(outcome) /\ outcome.exc.cls = "DShieldError"
              /\ Contains(outcome.exc.msg, <<"Invalid IP address format">>)
              /\ clients = 0 /\ http = <<>>

\* a padded address with an octet above 255 was rejected
C1_Witness ==
    /\ LookupCalled
    /\ call.params = [ip |-> <<" ", "2", "5", ".", "2", "5", "6", ".", "2", "5", ".", "2", "5", "\n">>]
    /\ Raised(outcome)
    /\ http = <<>>

\* the ip parameter is missing, empty after trimming, or no dotted quad
BadIpParam ==
    \/ "ip" \notin DOMAIN call.params
    \/ GivenIp = <<>>
    \/ ~IsDottedQuad(GivenIp)

\* C2: lookup_ip invoked through DShieldConnector.execute with a missing, empty or
\* malformed ip fails with the platform error, and no HTTP request is issued.
C2_ConnectorRejectsBadIp ==
    (call.module = "connector" /\ call.op = "lookup_ip" /\ BadIpParam) =>
        /\ Raised(outcome) /\ outcome.exc.cls = "ConnectorError"
        /\ http = <<>>

RestCalled == call.module \in Modules /\ call.op = "make_rest_call" /\ Len(call.nets) = 1

\* C3: for a non-success status make_rest_call fails with a DShield error whose text
\* is exactly 'API Error <code>: <message>', the message being the status table's
\* entry or 'Unknown error occurred'; no handler adds a prefix or a suffix.
C3_ApiErrorTextExact ==
    (RestCalled /\ call.nets[1].io = "answer" /\ call.nets[1].status >= 400) =>
        IsError("DShieldError",
                <<"API Error ", ToString(call.nets[1].status), ": ">>
                    \o TableGet(error_msg_lib, call.nets[1].status, <<"Unknown error occurred">>))

\* C4: when the transport raises SSLError, make_rest_call fails with the DShield
\* error 'SSL certificate validation failed'.
C4_SslErrorMessage ==
    (RestCalled /\ call.nets[1].io = "raise" /\ call.nets[1].exc.cls = "SSLError") =>
        IsError("DShieldError", <<"SSL certificate validation failed">>)

DailyLibCalled == call.module = "lib" /\ call.op = "get_daily_summary"

\* a candidate endpoint fails: its call raises (the transport raises, or the status is
\* no success), or it returns a mapping with an 'error' key (an empty body, or a JSON
\* object that has the key)
EndpointFails(net) ==
    \/ net.io = "raise"
    \/ net.status >= 400
    \/ net.body.form = "blank"
    \/ /\ net.body.form = "json"
       /\ net.body.value.ty = "dict"
       /\ "error" \in DOMAIN net.body.value.d

\* C5: in the host get_daily_summary, if each of the three candidate endpoints raises
\* or returns a mapping with an 'error' key, in any combination, the operation fails
\* with 'All daily summary endpoints failed or returned no data'.
C5_AllEndpointsFailedRaises ==
    (DailyLibCalled /\ Len(call.nets) = 3 /\ \A i \in 1..3 : EndpointFails(call.nets[i])) =>
        IsError("DShieldError", <<"All daily summary endpoints failed or returned no data">>)

\* the client of the invocation recorded in call
CallClient == DShield_init(call.module, call.config).value

\* the requests of the invocation whose make_rest_call returned
Answered == {i \in 1..Len(call.nets) : Returned(make_rest_call(call.module, CallClient, call.nets[i]))}

\* the result get_daily_summary is left with: what the last request that returned gave
Chosen ==
    make_rest_call(call.module, CallClient,
                   call.nets[CHOOSE i \in Answered : \A j \in Answered : j <= i]).value

ChosenIsEmptyResponse ==
    /\ call.module \in Modules /\ call.op = "get_daily_summary"
    /\ Answered # {}
    /\ IsDict(Chosen) /\ HasKey(Chosen, "error")
    /\ IsText(Chosen.d["error"]) /\ Contains(Chosen.d["error"].s, <<"Empty response">>)

\* C6: when the result get_daily_summary chose is a mapping whose 'error' contains
\* 'Empty response', the operation returns the soft-failure envelope and does not raise.
C6_EmptyResponseEnvelope ==
    ChosenIsEmptyResponse =>
        /\ Returned(outcome) /\ IsDict(outcome.value)
        /\ HasKey(outcome.value, "error")
        /\ outcome.value.d["error"]
             = PyStr(<<"Daily summary endpoint returned empty response - endpoint may be broken">>)
        /\ HasKey(outcome.value, "raw_response")
        /\ outcome.value.d["raw_response"] = PyStr(<<>>)
        /\ HasKey(outcome.value, "_metadata") /\ IsDict(outcome.value.d["_metadata"])
        /\ HasKey(outcome.value.d["_metadata"], "note")
        /\ outcome.value.d["_metadata"].d["note"]
             = PyStr(<<"This endpoint appears to be broken or deprecated">>)

\* the host scan ended on an empty body, and the envelope came back
C6_Witness ==
    /\ DailyLibCalled /\ Len(call.nets) = 3
    /\ call.nets[3] = NetAnswer(200, BlankBody)
    /\ ChosenIsEmptyResponse
    /\ Returned(outcome)

\* the document of the XML path: the first endpoint answered with well-formed markup
XmlPath ==
    /\ DailyLibCalled /\ Len(call.nets) = 1
    /\ call.nets[1].io = "answer" /\ call.nets[1].status < 400
    /\ call.nets[1].body.form = "xml" /\ call.nets[1].body.doc.wellformed

XmlDaily == call.nets[1].body.doc.daily

\* a child that is absent, has no text, or has a text that is not all digits
NoCount(child) ==
    \/ child.child \in {"absent", "empty"}
    \/ child.child = "text" /\ \E i \in 1..Len(child.text) : child.text[i] \notin Digits

\* C7: in the XML path, a 'daily' element whose records, sources or targets child is
\* absent, empty or not all digits gets 0 in that field, and the operation does not raise.
C7_MissingCountsAreZero ==
    XmlPath =>
        /\ Returned(outcome)
        /\ \A i \in 1..Len(XmlDaily) : \A f \in {"records", "sources", "targets"} :
              NoCount(XmlDaily[i][f]) =>
                  outcome.value.d["daily_summaries"].items[i].d[f] = PyInt(0)

\* the sum of the numbers of a sequence
RECURSIVE Total(_)
Total(numbers) == IF numbers = <<>> THEN 0 ELSE numbers[1] + Total(Tail(numbers))

\* the number a count child stands for: its decimal value when it is all digits, else 0
CountOf(child) ==
    IF child.child = "text" /\ IsDigit(child.text) THEN ParseInt(child.text) ELSE 0

\* C8: in the XML path, for every sequence of 'daily' elements, the operation's
\* result has one daily_summaries entry per element in document order, and
\* summary_totals holds the sums of records, sources and targets over the entries.
C8_TotalsAreSums ==
    XmlPath =>
        /\ Returned(outcome)
        /\ LET entries == outcome.value.d["daily_summaries"].items
               totals == outcome.value.d["summary_totals"].d
               column(f) == [i \in 1..Len(entries) |-> entries[i].d[f].n]
           IN /\ Len(entries) = Len(XmlDaily)
              /\ \A i \in 1..Len(entries) : \A f \in {"records", "sources", "targets"} :
                    entries[i].d[f] = PyInt(CountOf(XmlDaily[i][f]))
              /\ totals["total_records"] = PyInt(Total(column("records")))
              /\ totals["total_sources"] = PyInt(Total(column("sources")))
              /\ totals["total_targets"] = PyInt(Total(column("targets")))

OperationCalled ==
    /\ call.module \in Modules \cup {"connector"}
    /\ call.op \in {"lookup_ip", "get_threat_feeds", "get_top_ports", "get_daily_summary",
                    "get_top_attacking_ips"}

\* C9: every value an operation returns, whatever the shape of the decoded response
\* and whichever variant ran, is a mapping with _metadata.source 'DShield' and
\* _metadata.connector_version '1.1.0'.
C9_ResultsCarryMetadata ==
    (OperationCalled /\ Returned(outcome)) =>
        /\ IsDict(outcome.value)
        /\ HasKey(outcome.value, "_metadata")
        /\ IsDict(outcome.value.d["_metadata"])
        /\ HasKey(outcome.value.d["_metadata"], "source")
        /\ outcome.value.d["_metadata"].d["source"] = PyStr(<<"DShield">>)
        /\ HasKey(outcome.value.d["_metadata"], "connector_version")
        /\ outcome.value.d["_metadata"].d["connector_version"] = PyStr(<<"1.1.0">>)

HealthCalled == call.module \in {"lib", "connector"} /\ call.op = "check_health" /\ Len(call.nets) = 1

\* the probe call completes without raising: the library's probe is make_rest_call,
\* which returns for every success status; the connector's is operations.lookup_ip,
\* which returns when the success body decodes as JSON
ProbeCompletes ==
    /\ call.nets[1].io = "answer" /\ call.nets[1].status < 400
    /\ call.module = "connector" => call.nets[1].body.form = "json"

\* C10: check_health returns true whenever the probe completes without raising, in
\* the library and in DShieldConnector.check_health; when the probe raises a
\* connection failure it fails with the structured error (DShieldError in the
\* library, ConnectorError at the adapter).
C10_HealthTrueOrStructuredError ==
    HealthCalled =>
        /\ ProbeCompletes => outcome = Return(PyBool(TRUE))
        /\ (call.nets[1].io = "raise" /\ call.nets[1].exc.cls = "ConnectionError") =>
              /\ Raised(outcome)
              /\ outcome.exc.cls = (IF call.module = "lib" THEN "DShieldError" ELSE "ConnectorError")

ExecuteCalled == call.module = "connector" /\ call.op # "check_health"

\* execute rejected the operation name as not found
RejectedAsNotFound ==
    /\ Raised(outcome) /\ outcome.exc.cls = "ConnectorError"
    /\ StartsWith(outcome.exc.msg,
                  <<"Operation \"", call.op, "\" not found. Available operations: ">>)

\* C11: each of the five names lookup_ip, get_threat_feeds, get_top_ports,
\* get_daily_summary and get_top_attacking_ips is in the registry execute uses:
\* execute resolves and invokes the operation and never rejects the name as not found.
C11_FiveOperationsRegistered ==
    (ExecuteCalled /\ call.op \in {"lookup_ip", "get_threat_feeds", "get_top_ports",
                                   "get_daily_summary", "get_top_attacking_ips"}) =>
        /\ ~RejectedAsNotFound
        /\ clients = 1

\* C12: for an operation name that is no key of the registry, execute fails with a
\* ConnectorError whose message lists every registered name; no operation function
\* runs (no client is constructed) and no HTTP request is issued.
C12_UnknownOperationRejected ==
    (ExecuteCalled /\ ~Registered(operations_legacy, call.op)) =>
        /\ Raised(outcome) /\ outcome.exc.cls = "ConnectorError"
        /\ \A i \in 1..Len(operations_legacy) : Contains(outcome.exc.msg, <<operations_legacy[i]>>)
        /\ clients = 0
        /\ http = <<>>

\* a name no module registers was given and rejected
C12_Witness ==
    /\ ExecuteCalled /\ call.op = "no_such_operation"
    /\ RejectedAsNotFound
    /\ http = <<>>

\* the outcome of the operation function execute invoked: what the function of the
\* registry gives for the recorded config, parameters and response
OperationOutcome == OperationFunc(call.op, call.config, call.params, call.nets[1]).out

OperationRaisedKind ==
    /\ ExecuteCalled /\ Registered(operations_legacy, call.op)
    /\ Len(call.nets) = 1
    /\ Raised(OperationOutcome)
    /\ \/ IsInstance(OperationOutcome.exc, "DShieldError")
       \/ IsInstance(OperationOutcome.exc, "ConnectorError")

\* C13: when the operation execute invoked raises a DShield error or a ConnectorError,
\* execute raises a ConnectorError with exactly the message of that error, no prefix added.
C13_ErrorMessagePreserved ==
    OperationRaisedKind =>
        /\ Raised(outcome) /\ outcome.exc.cls = "ConnectorError"
        /\ outcome.exc.msg = OperationOutcome.exc.msg

\* an operation failed on an HTTP 503 and execute passed the message on
C13_Witness ==
    /\ OperationRaisedKind
    /\ call.nets[1].io = "answer" /\ call.nets[1].status = 503
    /\ Raised(outcome) /\ outcome.exc.msg = OperationOutcome.exc.msg

CliCalled == call.module = "cli"

\* the arguments are valid: where the script looks an address up, --ip is a dotted quad
ValidArguments ==
    (call.op = "dshield_dev_lookup_ip" \/ call.args.operation = "lookup_ip") =>
        (IsText(call.args.ip) /\ IsDottedQuad(Trimmed(call.args.ip.s)))

\* the server answers a request with HTTP 200 and a JSON body
ServerAnswersJson ==
    /\ call.server.io = "answer" /\ call.server.status = 200
    /\ call.server.body.form = "json"

\* C14: a script run with valid arguments against a server that answers HTTP 200 with a
\* JSON body prints the rendered result to standard output and exits with code 0; the
\* configuration it passes to the standalone client is exactly {server_url, timeout}.
C14_ScriptSucceeds ==
    (CliCalled /\ ValidArguments /\ ServerAnswersJson /\ call.fs = "ok") =>
        /\ DOMAIN call.config = {"server_url", "timeout"}
        /\ outcome = Return(PyInt(0))
        /\ Len(stdout) >= 4
        /\ stderr = <<>>

\* the operation of the script, a filter or the formatting failed
RenderFailed ==
    \/ StopsEarly(call.op, call.args)
    \/ Raised(Render(call.op, call.args, ScriptOperation(call.op, call.args, call.server).out))

\* C15: when the operation of a script, or a filter or formatting step after it, fails,
\* the script exits with code 1 and the --save-to-file path is neither opened nor written;
\* a file is written only once the output text has been printed.
C15_NoFileOnFailure ==
    CliCalled =>
        /\ RenderFailed => (outcome = Return(PyInt(1)) /\ files = <<>>)
        /\ files # <<>> => Len(stdout) >= 4

\* a run asked to save its table output failed in the operation and left no file
C15_Witness ==
    /\ CliCalled /\ RenderFailed
    /\ Truthy(call.args.save_to_file) /\ call.args.output = "table" /\ call.fs = "ok"
    /\ ValidArguments /\ ServerAnswersJson
    /\ outcome = Return(PyInt(1)) /\ stderr # <<>> /\ files = <<>>

\* what make_rest_call gave for the i-th request of the invocation
CallResult(i) == make_rest_call(call.module, CallClient, call.nets[i])

\* an HTTP call of the invocation raised a DShield error
DShieldRaisedAt(i) == Raised(CallResult(i)) /\ IsInstance(CallResult(i).exc, "DShieldError")

OperationSetCalled ==
    /\ call.module \in Modules
    /\ call.op \in {"lookup_ip", "get_threat_feeds", "get_top_ports", "get_daily_summary",
                    "get_top_attacking_ips"}

\* C16: whenever an HTTP call made by an operation of the Operation Set raises a DShield
\* error, the operation ends by raising a DShield error with that same message and
\* returns no result; the host get_daily_summary included.
C16_NeverRecovers ==
    OperationSetCalled =>
        \A i \in 1..Len(call.nets) :
            DShieldRaisedAt(i) => IsError("DShieldError", CallResult(i).exc.msg)

\* the operations that issue one request: all but the host get_daily_summary
SingleRequestCalled == OperationSetCalled /\ ~DailyLibCalled

\* C16 as amended: the single-request operations pass the DShield error of their HTTP
\* call on unchanged and return nothing; the host get_daily_summary goes on to the next
\* endpoint, and when all three calls raise it fails with 'All daily summary endpoints
\* failed or returned no data'.
C16_SingleRequestNeverRecovers ==
    /\ SingleRequestCalled =>
          \A i \in 1..Len(call.nets) :
              DShieldRaisedAt(i) => IsError("DShieldError", CallResult(i).exc.msg)
    /\ (DailyLibCalled /\ Len(call.nets) = 3 /\ \A i \in 1..3 : DShieldRaisedAt(i)) =>
          IsError("DShieldError", <<"All daily summary endpoints failed or returned no data">>)

\* get_top_ports met a timeout and failed with the text make_rest_call gave
C16_Witness ==
    /\ SingleRequestCalled /\ call.op = "get_top_ports" /\ Len(call.nets) = 1
    /\ call.nets[1].io = "raise" /\ call.nets[1].exc.cls = "ReadTimeout"
    /\ DShieldRaisedAt(1)
    /\ IsError("DShieldError", time_out)

\* C17: one invocation of lookup_ip, get_threat_feeds, get_top_ports,
\* get_top_attacking_ips, the standalone get_daily_summary or check_health issues at most
\* one HTTP request, whatever the outcome; the host get_daily_summary issues at most
\* three, and requests no candidate endpoint twice.
C17_SingleAttempt ==
    /\ (~Idle /\ ~DailyLibCalled) => Len(http) <= 1
    /\ DailyLibCalled =>
          /\ Len(http) <= 3
          /\ \A i \in 1..Len(http) : \A j \in 1..Len(http) :
                i # j => http[i].url # http[j].url

\* the host get_daily_summary went through its three endpoints, the first two failing
C17_Witness ==
    /\ DailyLibCalled /\ Len(http) = 3
    /\ call.nets[1].io = "raise" /\ call.nets[2].io = "answer" /\ call.nets[2].status = 503
    /\ Returned(outcome)

\* C18: every HTTP request of every client, the client of operations.py that the
\* connector imports included, is issued with the configured timeout (config 'timeout',
\* 30 seconds when it is not set).
C18_EveryRequestHasTimeout ==
    ~Idle =>
        \A i \in 1..Len(http) : http[i].timeout = PyInt(CfgGet(call.config, "timeout", 30))

ConstructCalled == ~Idle /\ call.op = "__init__" /\ "server_url" \in DOMAIN call.config

GivenUrl == Trimmed(call.config.server_url)

\* the number of '/api' segments of a URL
ApiSegments(url) ==
    Cardinality({i \in 2..Len(url) : url[i - 1] = "/" /\ url[i] = "api"})

\* C19: for a non-empty server_url, the constructor of each module (dshield_lib,
\* standalone_operations, operations) gives a base_url that starts with a scheme,
\* https:// being added when none is given, has no trailing slash and ends in exactly
\* one '/api' segment.
C19_BaseUrlNormalized ==
    (ConstructCalled /\ GivenUrl # <<>> /\ Returned(outcome)) =>
        LET base_url == outcome.value.base_url
        IN /\ IF StartsWith(GivenUrl, Http) THEN StartsWith(base_url, Http \o Host)
              ELSE StartsWith(base_url, Https \o Host)
           /\ base_url[Len(base_url)] # "/"
           /\ EndsWith(base_url, ApiSuffix)
           /\ ApiSegments(base_url) = 1

FiltersCalled == call.module = "dshield_dev_get_threat_feeds" /\ call.op = "apply_filters"

\* the value of the entry under key equals the given filter, letter case apart
EqualsIgnoringCase(entry, key, filter) ==
    /\ IsDict(entry) /\ HasKey(entry, key) /\ IsText(entry.d[key])
    /\ Lower(entry.d[key].s) = Lower(filter.s)

\* the entry is one the filters keep
Kept(entry) ==
    /\ call.filter_type # PyNone => EqualsIgnoringCase(entry, "type", call.filter_type)
    /\ call.filter_frequency # PyNone =>
          EqualsIgnoringCase(entry, "frequency", call.filter_frequency)

\* the entries of a list that the filters keep, in their order
RECURSIVE KeptOf(_)
KeptOf(entries) ==
    IF entries = <<>> THEN <<>>
    ELSE (IF Kept(Head(entries)) THEN <<Head(entries)>> ELSE <<>>) \o KeptOf(Tail(entries))

\* C20: for every result mapping with a threat_feeds list and every filter_type and
\* filter_frequency, apply_filters leaves in threat_feeds exactly the entries of the
\* original list, in their order, whose type and frequency equal the given filters
\* case-insensitively, and sets _metadata.total_feeds to the length of that list.
C20_FiltersKeepMatching ==
    FiltersCalled =>
        /\ Returned(outcome)
        /\ outcome.value.d["threat_feeds"] = PyList(KeptOf(call.result.d["threat_feeds"].items))
        /\ outcome.value.d["_metadata"].d["total_feeds"]
             = PyInt(Len(KeptOf(call.result.d["threat_feeds"].items)))

\* the one response of the invocation is a success status with a body that is empty
\* once trimmed
EmptySuccess ==
    /\ Len(call.nets) = 1
    /\ call.nets[1].io = "answer" /\ call.nets[1].status < 400
    /\ call.nets[1].body.form = "blank"

EmptyResponseMapping ==
    [error |-> PyStr(<<"Empty response", " received from server">>), raw_response |-> PyStr(<<>>)]

\* C21: for a success status with an empty body make_rest_call returns the mapping
\* {error: 'Empty response received from server', raw_response: ''} and does not raise;
\* lookup_ip, get_threat_feeds, get_top_ports and get_top_attacking_ips then return that
\* mapping with _metadata added.
C21_EmptyBodyIsSoftFailure ==
    /\ (RestCalled /\ EmptySuccess) => outcome = Return(PyDict(EmptyResponseMapping))
    /\ (OperationSetCalled /\ call.op # "get_daily_summary" /\ EmptySuccess) =>
          /\ Returned(outcome) /\ IsDict(outcome.value)
          /\ DOMAIN outcome.value.d = {"error", "raw_response", "_metadata"}
          /\ \A k \in {"error", "raw_response"} : outcome.value.d[k] = EmptyResponseMapping[k]
          /\ IsDict(outcome.value.d["_metadata"])
          /\ \A k \in DOMAIN Metadata :
                /\ HasKey(outcome.value.d["_metadata"], k)
                /\ outcome.value.d["_metadata"].d[k] = Metadata[k]

\* get_threat_feeds got HTTP 204 without a body and returned the mapping
C21_Witness ==
    /\ OperationSetCalled /\ call.op = "get_threat_feeds" /\ EmptySuccess
    /\ call.nets[1].status = 204
    /\ Returned(outcome) /\ IsDict(outcome.value) /\ HasKey(outcome.value, "error")

OperationsScriptCalled == ~Idle /\ call.module = "cli" /\ call.op = "dshield_dev_operations"

IpRequiredLine == PyStr(<<"Error: --ip parameter is required for lookup_ip operation">>)

\* C22: dshield_dev_operations.py with the operation lookup_ip and --ip absent or empty
\* prints an error to standard error and exits with code 1, with no client constructed,
\* no HTTP request issued and no file written; with one of the other four operations the
\* script never asks for --ip: it goes on to the operation, which constructs its client.
C22_LookupNeedsIp ==
    OperationsScriptCalled =>
        /\ (call.args.operation = "lookup_ip" /\ ~Truthy(call.args.ip)) =>
              /\ outcome = Return(PyInt(1))
              /\ stderr = <<IpRequiredLine>>
              /\ clients = 0 /\ http = <<>> /\ files = <<>>
        /\ call.args.operation # "lookup_ip" =>
              /\ \A i \in 1..Len(stderr) : stderr[i] # IpRequiredLine
              /\ clients = 1

\* lookup_ip with --ip '' stopped at the check
C22_Witness ==
    /\ OperationsScriptCalled
    /\ call.args.operation = "lookup_ip" /\ call.args.ip = PyStr(<<>>)
    /\ outcome = Return(PyInt(1)) /\ stderr = <<IpRequiredLine>> /\ clients = 0

\* the path of the i-th candidate endpoint, as the claim lists them
CandidatePath(i) ==
    CASE i = 1 -> <<"/dailysummary/", "<start_date>", "/", "<end_date>">>
      [] i = 2 -> <<"/daily/?json">>
      [] i = 3 -> <<"/dailysummary/?json">>

\* the call of a candidate raised, or returned a falsy value or a mapping with an 'error' key
CandidateFailed(net) ==
    \/ EndpointFails(net)
    \/ net.body.form = "json" /\ ~Truthy(net.body.value)

\* C23: the host get_daily_summary requests its candidate endpoints in the order
\* /dailysummary/<start>/<end>, /daily/?json, /dailysummary/?json; every candidate that
\* was followed by another one had raised, returned a falsy value or returned a mapping
\* with an 'error' key, so that a candidate with a usable result is the last one requested.
C23_CandidatesInOrder ==
    DailyLibCalled =>
        /\ Len(http) <= 3 /\ Len(call.nets) = Len(http)
        /\ \A i \in 1..Len(http) :
              /\ http[i].url = CallClient.base_url \o CandidatePath(i)
              /\ i < Len(http) => CandidateFailed(call.nets[i])

\* the first candidate raised, the second gave a usable JSON result, the third was not asked
C23_Witness ==
    /\ DailyLibCalled /\ Len(http) = 2
    /\ call.nets[1].io = "raise"
    /\ ~CandidateFailed(call.nets[2])
    /\ http[2].url = CallClient.base_url \o <<"/daily/?json">>
    /\ Returned(outcome)

\* the scan of the host get_daily_summary went through its three candidates and was left
\* with no result (every call raised) or with a falsy one (null, 0, an empty list, ...)
ScanLeftNothing ==
    /\ DailyLibCalled /\ Len(http) = 3
    /\ (Answered = {} \/ ~Truthy(Chosen))

\* C24: when the result left after the endpoint scan of the host get_daily_summary is
\* falsy or absent, the operation returns the envelope {error: 'Daily summary endpoint
\* returned no data', raw_response: '', _metadata.note: 'No data available for the
\* requested date range'} and does not raise.
C24_NoDataEnvelopeReturned ==
    ScanLeftNothing =>
        /\ Returned(outcome) /\ IsDict(outcome.value)
        /\ HasKey(outcome.value, "error") /\ HasKey(outcome.value, "raw_response")
        /\ HasKey(outcome.value, "_metadata")
        /\ outcome.value.d["error"] = PyStr(<<"Daily summary endpoint returned no data">>)
        /\ outcome.value.d["raw_response"] = PyStr(<<>>)
        /\ IsDict(outcome.value.d["_metadata"]) /\ HasKey(outcome.value.d["_metadata"], "note")
        /\ outcome.value.d["_metadata"].d["note"] =
               PyStr(<<"No data available for the requested date range">>)

SessionOpen == ~Idle /\ call.op = "session"

\* C25: a make_rest_call with caller-supplied headers sends the client's default headers
\* overridden by the caller's value on every key the caller supplies, and leaves the
\* client's default headers, base_url, timeout and status table as the constructor set
\* them, so that a later call without caller headers sends exactly the original defaults.
C25_CallerHeadersAreLocal ==
    SessionOpen =>
        /\ call.client = call.made
        /\ \A i \in 1..Len(http) :
              /\ DOMAIN http[i].headers = (DOMAIN call.made.headers) \cup (DOMAIN call.headers[i])
              /\ \A h \in DOMAIN call.headers[i] : http[i].headers[h] = call.headers[i][h]
              /\ \A h \in (DOMAIN call.made.headers) \ (DOMAIN call.headers[i]) :
                    http[i].headers[h] = call.made.headers[h]
              /\ call.headers[i] = EmptyMap => http[i].headers = call.made.headers

\* a call that overrode Accept and added a header was followed by a call without caller
\* headers, which sent the defaults
C25_Witness ==
    /\ SessionOpen /\ Len(http) = 2
    /\ call.headers[1] = [Trace |-> <<"on">>, Accept |-> <<"*/*">>]
    /\ http[1].headers["Accept"] = <<"*/*">>
    /\ http[1].headers # call.made.headers
    /\ call.headers[2] = EmptyMap
    /\ http[2].headers = call.made.headers

\* the host get_daily_summary returned data: a value other than the empty-response envelope
DailyReturnedData ==
    DailyLibCalled /\ Returned(outcome) /\ outcome.value # EmptyResponseEnvelope

\* C26: whenever the host get_daily_summary returns data, rather than raising or returning
\* the empty-response envelope, the scan stopped on a candidate with a usable result: the
\* last candidate requested did not fail, and no failed response of an earlier candidate
\* is what the operation returns.
C26_NoFailedResponseReturned ==
    DailyReturnedData =>
        /\ Len(http) >= 1
        /\ ~CandidateFailed(call.nets[Len(http)])

ConnectorCalled == call.module = "connector"

\* C27: every invocation of DShieldConnector.execute and of DShieldConnector.check_health
\* ends with a returned value or with a raised ConnectorError; no exception of another
\* type, whether from the registry lookup, the client's construction, the HTTP call or the
\* handling of the result, reaches the caller.
C27_OnlyConnectorErrorEscapes ==
    ConnectorCalled =>
        \/ Returned(outcome)
        \/ Raised(outcome) /\ outcome.exc.cls = "ConnectorError"

\* execute with a configuration that has no server_url: the AttributeError of the client's
\* constructor reached the caller as a ConnectorError
C27_Witness ==
    /\ ExecuteCalled /\ call.op = "lookup_ip"
    /\ "server_url" \notin DOMAIN call.config
    /\ Raised(outcome) /\ outcome.exc.cls = "ConnectorError"
    /\ StartsWith(outcome.exc.msg, <<"Unexpected error in connector: ">>)

====
